---- MODULE Spec2Model ----
(***************************************************************************)
(* Scope-aware walkers of the Quirrel language tooling (src/wasm):         *)
(*   DeclarationFinder      (find_declaration.cpp)  go-to-declaration      *)
(*   SemanticTokenExtractor (semantic_tokens.cpp)   semantic tokens        *)
(*   SymbolExtractor        (extract_symbols.cpp)   outline                *)
(*   analyzeCode            (analyze.cpp)           diagnostics            *)
(* The syntax tree is the input produced by the external parser            *)
(* (sq_parsetoast); a traversal is modelled as a machine whose stack holds *)
(* the work that the recursive visitNode calls still have to do.           *)
(***************************************************************************)
EXTENDS Integers, Sequences, FiniteSets, TLC

VARIABLES
    phase,            \* which call is running / position of the host
    root,             \* astData->root: the tree of the parsed document
    source,           \* the source text (sequence of characters)
    stack,            \* pending work of the running traversal (call stack)
    targetLine,       \* DeclarationFinder::targetLine (1-based)
    targetCol,        \* DeclarationFinder::targetCol (0-based)
    found,            \* DeclarationFinder::found
    declarationNode,  \* DeclarationFinder::declarationNode
    declarationKind,  \* DeclarationFinder::declarationKind
    currentScope,     \* Scope* currentScope of the walker that is alive
    allScopes,        \* std::vector<Scope*> allScopes of that walker
    tokens,           \* SemanticTokenExtractor::tokens
    lineOffsets,      \* SemanticTokenExtractor::lineOffsets
    result,           \* what the finished call returned
    hist,             \* history of the traversal (observations for the properties)
    lastError,        \* static std::string lastError (extract_symbols.cpp)
    diagOutput,       \* static std::ostringstream* diagOutput (analyze.cpp)
    diagFirst,        \* static bool diagFirst (analyze.cpp)
    queries           \* the parseAndExtractSymbols / analyzeCode calls of the host

vars == <<phase, root, source, stack, targetLine, targetCol, found,
          declarationNode, declarationKind, currentScope, allScopes,
          tokens, lineOffsets, result, hist,
          lastError, diagOutput, diagFirst, queries>>

\* the statics of extract_symbols.cpp and analyze.cpp, and the calls that use them
hostVars == <<lastError, diagOutput, diagFirst, queries>>
\* the statics as the program starts, no call made
HostIdle ==
    /\ lastError = <<>>
    /\ diagOutput = 0
    /\ diagFirst = TRUE
    /\ queries = <<>>

(***************************************************************************)
(* C strings.  A const char* is a sequence of characters, or nullptr.      *)
(***************************************************************************)
NullStr == <<"\\0">>
EmptyStr == <<>>
strlen(s) == Len(s)

Lower == {"a","b","c","d","e","f","g","h","i","j","k","l","m",
          "n","o","p","q","r","s","t","u","v","w","x","y","z"}
Upper == {"A","B","C","D","E","F","G","H","I","J","K","L","M",
          "N","O","P","Q","R","S","T","U","V","W","X","Y","Z"}
Digit == {"0","1","2","3","4","5","6","7","8","9"}
isalnum(c) == c \in Lower \cup Upper \cup Digit

s_x == <<"x">>
s_y == <<"y">>
s_z == <<"z">>
s_c == <<"c">>
s_f == <<"f">>
s_g == <<"g">>
s_E == <<"E">>
s_A == <<"A">>
s_B == <<"B">>
s_m == <<"m">>
s_this == <<"t","h","i","s">>
s_base == <<"b","a","s","e">>
s_star == <<"*">>
s_as == <<"a","s">>

(***************************************************************************)
(* Syntax tree nodes (SQCompilation::Node and its subclasses, external).   *)
(* Every node is a record; kids holds the children in the order of the     *)
(* accessors below, Null stands for a null child pointer.  A node is       *)
(* identified (a Node pointer) by its path from the root.                  *)
(***************************************************************************)
N(op, name, flag, kids) ==
    [op |-> op, name |-> name, flag |-> flag, kids |-> kids, aux |-> <<>>,
     ls |-> 0, cs |-> 0, le |-> 0, ce |-> 0]

Null == N("nullptr", NullStr, FALSE, <<>>)
NullPath == <<0>>

BinaryOps == {"TO_NULLC", "TO_ASSIGN", "TO_OROR", "TO_ANDAND", "TO_EQ", "TO_LT",
              "TO_ADD", "TO_SUB", "TO_PLUSEQ", "TO_MODEQ"}
UnaryOps == {"TO_NOT", "TO_NEG", "TO_TYPEOF", "TO_CLONE", "TO_PAREN", "TO_DELETE",
             "TO_STATIC_MEMO", "TO_INLINE_CONST"}

RECURSIVE At(_, _)
At(n, p) == IF p = <<>> THEN n ELSE At(n.kids[Head(p)], Tail(p))

\* constructors of the trees the parser hands over
Id(name) == N("TO_ID", name, FALSE, <<>>)
Lit == N("TO_LITERAL", NullStr, FALSE, <<>>)
\* a literal of kind LK_STRING with the value s
StrLit(s) == N("TO_LITERAL", s, TRUE, <<>>)
Block(stmts) == N("TO_BLOCK", NullStr, FALSE, stmts)
RootBlock(stmts) == N("TO_BLOCK", NullStr, TRUE, stmts)
Param(name) == N("TO_PARAM", name, FALSE, <<>>)
Function(name, params, body) == N("TO_FUNCTION", name, FALSE, <<body>> \o params)
\* a function declaration with its name on the line after the keyword
FunctionOnNextLine(name, params, body) ==
    [Function(name, params, body) EXCEPT !.aux = <<"nl">>]
Constructor(params, body) ==
    N("TO_CONSTRUCTOR", <<"c","o","n","s","t","r","u","c","t","o","r">>, FALSE,
      <<body>> \o params)
Var(name, assignable, init) == N("TO_VAR", name, assignable, <<init>>)
Const(name, value) == N("TO_CONST", name, FALSE, <<value>>)
Enum(name, consts) == [N("TO_ENUM", name, FALSE, <<>>) EXCEPT !.aux = consts]
DeclGroup(decls) == N("TO_DECL_GROUP", NullStr, FALSE, decls)
Destructure(decls, init) == N("TO_DESTRUCTURE", NullStr, FALSE, <<init>> \o decls)
Slot(name, alias) == [name |-> name, alias |-> alias, line |-> 0, column |-> 0]
Import(alias, slots) == [N("TO_IMPORT", alias, FALSE, <<>>) EXCEPT !.aux = slots]
Foreach(idx, val, container, body) ==
    N("TO_FOREACH", NullStr, FALSE, <<container, idx, val, body>>)
For(init, cond, mod, body) == N("TO_FOR", NullStr, FALSE, <<init, cond, mod, body>>)
While(cond, body) == N("TO_WHILE", NullStr, FALSE, <<cond, body>>)
DoWhile(body, cond) == N("TO_DOWHILE", NullStr, FALSE, <<body, cond>>)
Try(tryStmt, exId, catchStmt) == N("TO_TRY", NullStr, FALSE, <<tryStmt, exId, catchStmt>>)
If(cond, thenB, elseB) == N("TO_IF", NullStr, FALSE, <<cond, thenB, elseB>>)
Switch(expr, cases, dflt) == N("TO_SWITCH", NullStr, FALSE, <<expr, dflt>> \o cases)
Terminate(op, arg) == N(op, NullStr, FALSE, <<arg>>)
ExprStmt(e) == N("TO_EXPR_STMT", NullStr, FALSE, <<e>>)
DeclExpr(d) == N("TO_DECL_EXPR", NullStr, FALSE, <<d>>)
Call(callee, args) == N("TO_CALL", NullStr, FALSE, <<callee>> \o args)
GetField(recv, field) == N("TO_GETFIELD", field, FALSE, <<recv>>)
SetField(recv, field, value) == N("TO_SETFIELD", field, FALSE, <<recv, value>>)
GetSlot(recv, key) == N("TO_GETSLOT", NullStr, FALSE, <<recv, key>>)
SetSlot(recv, key, value) == N("TO_SETSLOT", NullStr, FALSE, <<recv, key, value>>)
Ternary(a, b, c) == N("TO_TERNARY", NullStr, FALSE, <<a, b, c>>)
ArrayExpr(inits) == N("TO_ARRAYEXPR", NullStr, FALSE, inits)
Comma(exprs) == N("TO_COMMA", NullStr, FALSE, exprs)
\* members: <<key1, value1, key2, value2, ...>>, statics: one flag per member
Table(members) == N("TO_TABLE", NullStr, FALSE, members)
Class(key, base, members, statics) ==
    [N("TO_CLASS", NullStr, FALSE, <<key, base>> \o members) EXCEPT !.aux = statics]
CodeBlockExpr(b) == N("TO_CODE_BLOCK_EXPR", NullStr, FALSE, <<b>>)
Bin(op, l, r) == N(op, NullStr, FALSE, <<l, r>>)
Un(op, a) == N(op, NullStr, FALSE, <<a>>)
Inc(a) == N("TO_INC", NullStr, FALSE, <<a>>)

(***************************************************************************)
(* The source text and the spans the parser records.  Layout writes a tree *)
(* out as Quirrel source, one top-level statement per line, and records in *)
(* every node the span of its text; the walkers only read the spans.       *)
(***************************************************************************)
T(s) == [t |-> "txt", s |-> s, i |-> 0]
K(i) == [t |-> "kid", s |-> <<>>, i |-> i]
\* a line break in the text of a node
NL == [t |-> "nl", s |-> <<>>, i |-> 0]
NameOf(n) == IF n.name = NullStr THEN <<>> ELSE n.name

\* kids from..to, separated by sep
KidsSep(from, to, sep) ==
    IF to < from THEN <<>>
    ELSE [j \in 1..(2 * (to - from) + 1) |->
            IF j % 2 = 1 THEN K(from + (j - 1) \div 2) ELSE T(sep)]

\* members key1,value1,... starting at kid `from`: "key = value", or the value alone
\* when it is a function (whose own text carries the name)
MemberItems(n, from, sep) ==
    LET cnt == (Len(n.kids) - from + 1) \div 2
        one(j) == LET v == n.kids[from + 2 * (j - 1) + 1]
                  IN  IF v.op \in {"TO_FUNCTION", "TO_CONSTRUCTOR"}
                      THEN <<K(from + 2 * (j - 1)), K(from + 2 * (j - 1) + 1)>>
                      ELSE <<K(from + 2 * (j - 1)), T(<<" ","="," ">>), K(from + 2 * (j - 1) + 1)>>
        RECURSIVE all(_)
        all(j) == IF j > cnt THEN <<>>
                  ELSE one(j) \o (IF j < cnt THEN <<T(sep)>> ELSE <<>>) \o all(j + 1)
    IN  all(1)

CaseItems(n) ==
    LET cnt == (Len(n.kids) - 2) \div 2
        RECURSIVE all(_)
        all(j) == IF j > cnt THEN <<>>
                  ELSE <<T(<<"c","a","s","e"," ">>), K(2 * j + 1), T(<<":"," ">>), K(2 * j + 2), T(<<" ">>)>> \o all(j + 1)
    IN  all(1)

RECURSIVE SlotText(_, _)
SlotText(slots, j) ==
    IF j > Len(slots) THEN <<>>
    ELSE slots[j].name
         \o (IF slots[j].alias = NullStr THEN <<>> ELSE <<" ","a","s"," ">> \o slots[j].alias)
         \o (IF j < Len(slots) THEN <<","," ">> ELSE <<>>)
         \o SlotText(slots, j + 1)

BinText(op) ==
    CASE op = "TO_ASSIGN" -> <<" ","="," ">>
      [] op = "TO_NULLC" -> <<" ","?","?"," ">>
      [] op = "TO_OROR" -> <<" ","|","|"," ">>
      [] op = "TO_ANDAND" -> <<" ","&","&"," ">>
      [] op = "TO_EQ" -> <<" ","=","="," ">>
      [] op = "TO_LT" -> <<" ","<"," ">>
      [] op = "TO_SUB" -> <<" ","-"," ">>
      [] op = "TO_PLUSEQ" -> <<" ","+","="," ">>
      [] op = "TO_MODEQ" -> <<" ","%","="," ">>
      [] OTHER -> <<" ","+"," ">>

UnText(op) ==
    CASE op = "TO_NOT" -> <<"!">>
      [] op = "TO_NEG" -> <<"-">>
      [] op = "TO_TYPEOF" -> <<"t","y","p","e","o","f"," ">>
      [] op = "TO_CLONE" -> <<"c","l","o","n","e"," ">>
      [] op = "TO_DELETE" -> <<"d","e","l","e","t","e"," ">>
      [] op = "TO_STATIC_MEMO" -> <<"s","t","a","t","i","c"," ">>
      [] op = "TO_INLINE_CONST" -> <<"c","o","n","s","t"," ">>
      [] OTHER -> <<"(">>

Syntax(n) ==
    LET cnt == Len(n.kids) IN
    CASE n.op = "TO_ID" -> <<T(NameOf(n))>>
      [] n.op = "TO_PARAM" -> <<T(NameOf(n))>>
      [] n.op = "TO_LITERAL" ->
            IF n.flag THEN <<T(<<"\"">>), T(NameOf(n)), T(<<"\"">>)>> ELSE <<T(<<"1">>)>>
      [] n.op = "TO_BLOCK" ->
            IF cnt = 0 THEN <<T(<<"{"," ","}">>)>>
            ELSE <<T(<<"{"," ">>)>> \o KidsSep(1, cnt, <<";"," ">>) \o <<T(<<" ","}">>)>>
      [] n.op = "TO_FUNCTION" ->
            (IF n.aux = <<>> THEN <<T(<<"f","u","n","c","t","i","o","n"," ">>)>>
             ELSE <<T(<<"f","u","n","c","t","i","o","n">>), NL>>)
            \o <<T(NameOf(n)), T(<<"(">>)>> \o KidsSep(2, cnt, <<","," ">>)
            \o <<T(<<")"," ">>), K(1)>>
      [] n.op = "TO_CONSTRUCTOR" ->
            <<T(NameOf(n)), T(<<"(">>)>> \o KidsSep(2, cnt, <<","," ">>) \o <<T(<<")"," ">>), K(1)>>
      [] n.op = "TO_CLASS" ->
            <<T(<<"c","l","a","s","s"," ">>), K(1)>>
            \o (IF n.kids[2] = Null THEN <<>> ELSE <<T(<<" ","e","x","t","e","n","d","s"," ">>), K(2)>>)
            \o <<T(<<" ","{"," ">>)>> \o MemberItems(n, 3, <<";"," ">>) \o <<T(<<" ","}">>)>>
      [] n.op = "TO_TABLE" -> <<T(<<"{"," ">>)>> \o MemberItems(n, 1, <<","," ">>) \o <<T(<<" ","}">>)>>
      [] n.op = "TO_ENUM" ->
            <<T(<<"e","n","u","m"," ">>), T(NameOf(n)), T(<<" ","{"," ">>), T(SlotText(n.aux, 1)), T(<<" ","}">>)>>
      [] n.op = "TO_VAR" ->
            (IF n.aux # <<>> THEN <<>>
             ELSE IF n.flag THEN <<T(<<"l","o","c","a","l"," ">>)>> ELSE <<T(<<"l","e","t"," ">>)>>)
            \o <<T(NameOf(n))>>
            \o (IF n.kids[1] = Null THEN <<>> ELSE <<T(<<" ","="," ">>), K(1)>>)
      [] n.op = "TO_CONST" -> <<T(<<"c","o","n","s","t"," ">>), T(NameOf(n)), T(<<" ","="," ">>), K(1)>>
      [] n.op = "TO_DECL_GROUP" -> <<T(<<"l","o","c","a","l"," ">>)>> \o KidsSep(1, cnt, <<","," ">>)
      [] n.op = "TO_DESTRUCTURE" ->
            <<T(<<"l","o","c","a","l"," ","{">>)>> \o KidsSep(2, cnt, <<","," ">>) \o <<T(<<"}">>), T(<<" ","="," ">>), K(1)>>
      [] n.op = "TO_IMPORT" ->
            IF n.aux = <<>>
            THEN <<T(<<"i","m","p","o","r","t"," ","\"","m","\"">>)>>
                 \o (IF n.name = NullStr THEN <<>> ELSE <<T(<<" ","a","s"," ">>), T(n.name)>>)
            ELSE <<T(<<"f","r","o","m"," ","\"","m","\""," ","i","m","p","o","r","t"," ">>), T(SlotText(n.aux, 1))>>
      [] n.op = "TO_FOREACH" ->
            <<T(<<"f","o","r","e","a","c","h"," ","(">>)>>
            \o (IF n.kids[2] = Null THEN <<>> ELSE <<K(2), T(<<","," ">>)>>)
            \o <<K(3), T(<<" ","i","n"," ">>), K(1), T(<<")"," ">>), K(4)>>
      [] n.op = "TO_FOR" ->
            <<T(<<"f","o","r"," ","(">>), K(1), T(<<";"," ">>), K(2), T(<<";"," ">>), K(3), T(<<")"," ">>), K(4)>>
      [] n.op = "TO_WHILE" -> <<T(<<"w","h","i","l","e"," ","(">>), K(1), T(<<")"," ">>), K(2)>>
      [] n.op = "TO_DOWHILE" -> <<T(<<"d","o"," ">>), K(1), T(<<" ","w","h","i","l","e"," ","(">>), K(2), T(<<")">>)>>
      [] n.op = "TO_TRY" ->
            <<T(<<"t","r","y"," ">>), K(1), T(<<" ","c","a","t","c","h"," ","(">>), K(2), T(<<")"," ">>), K(3)>>
      [] n.op = "TO_IF" ->
            <<T(<<"i","f"," ","(">>), K(1), T(<<")"," ">>), K(2)>>
            \o (IF n.kids[3] = Null THEN <<>> ELSE <<T(<<" ","e","l","s","e"," ">>), K(3)>>)
      [] n.op = "TO_SWITCH" ->
            <<T(<<"s","w","i","t","c","h"," ","(">>), K(1), T(<<")"," ","{"," ">>)>> \o CaseItems(n)
            \o (IF n.kids[2] = Null THEN <<>> ELSE <<T(<<"d","e","f","a","u","l","t",":"," ">>), K(2), T(<<" ">>)>>)
            \o <<T(<<"}">>)>>
      [] n.op = "TO_RETURN" -> <<T(<<"r","e","t","u","r","n"," ">>), K(1)>>
      [] n.op = "TO_YIELD" -> <<T(<<"y","i","e","l","d"," ">>), K(1)>>
      [] n.op = "TO_THROW" -> <<T(<<"t","h","r","o","w"," ">>), K(1)>>
      [] n.op = "TO_EXPR_STMT" -> <<K(1)>>
      [] n.op = "TO_DECL_EXPR" -> <<K(1)>>
      [] n.op = "TO_CODE_BLOCK_EXPR" -> <<K(1)>>
      [] n.op = "TO_CALL" -> <<K(1), T(<<"(">>)>> \o KidsSep(2, cnt, <<","," ">>) \o <<T(<<")">>)>>
      [] n.op = "TO_GETFIELD" -> <<K(1), T(<<".">>), T(NameOf(n))>>
      [] n.op = "TO_SETFIELD" -> <<K(1), T(<<".">>), T(NameOf(n)), T(<<" ","="," ">>), K(2)>>
      [] n.op = "TO_GETSLOT" -> <<K(1), T(<<"[">>), K(2), T(<<"]">>)>>
      [] n.op = "TO_SETSLOT" -> <<K(1), T(<<"[">>), K(2), T(<<"]">>), T(<<" ","="," ">>), K(3)>>
      [] n.op = "TO_TERNARY" -> <<K(1), T(<<" ","?"," ">>), K(2), T(<<" ",":"," ">>), K(3)>>
      [] n.op = "TO_ARRAYEXPR" -> <<T(<<"[">>)>> \o KidsSep(1, cnt, <<","," ">>) \o <<T(<<"]">>)>>
      [] n.op = "TO_COMMA" -> KidsSep(1, cnt, <<","," ">>)
      [] n.op = "TO_INC" -> <<K(1), T(<<"+","+">>)>>
      [] n.op \in BinaryOps -> <<K(1), T(BinText(n.op)), K(2)>>
      [] n.op = "TO_PAREN" -> <<T(<<"(">>), K(1), T(<<")">>)>>
      [] n.op \in UnaryOps -> <<T(UnText(n.op)), K(1)>>
      [] OTHER -> <<>>

\* the (line, column) of every import slot: the column of the imported name
RECURSIVE PlaceSlots(_, _, _, _)
PlaceSlots(slots, j, line, col) ==
    IF j > Len(slots) THEN slots
    ELSE LET w == strlen(slots[j].name)
                  + (IF slots[j].alias = NullStr THEN 0 ELSE 4 + strlen(slots[j].alias))
                  + 2
         IN  PlaceSlots([slots EXCEPT ![j].line = line, ![j].column = col],
                        j + 1, line, col + w)

\* Lay(n, line, col): the node with its spans, its text, and where the text ends
RECURSIVE Lay(_, _, _), LayItems(_, _, _, _, _)
Lay(n, line, col) ==
    IF n = Null THEN [n |-> Null, w |-> <<>>, line |-> line, col |-> col]
    ELSE LET r == LayItems(Syntax(n), line, col, n.kids, <<>>)
             aux == IF n.op = "TO_IMPORT" /\ n.aux # <<>>
                    THEN PlaceSlots(n.aux, 1, line, col + Len(<<"f","r","o","m"," ","\"","m","\""," ","i","m","p","o","r","t"," ">>))
                    ELSE n.aux
         IN  [n |-> [n EXCEPT !.kids = r.kids, !.aux = aux, !.ls = line, !.cs = col,
                               !.le = r.line, !.ce = r.col],
              w |-> r.w, line |-> r.line, col |-> r.col]
\* (line, col) is where the next item starts
LayItems(items, line, col, kids, text) ==
    IF items = <<>> THEN [kids |-> kids, w |-> text, line |-> line, col |-> col]
    ELSE LET it == Head(items) IN
         IF it.t = "txt"
         THEN LayItems(Tail(items), line, col + Len(it.s), kids, text \o it.s)
         ELSE IF it.t = "nl"
         THEN LayItems(Tail(items), line + 1, 0, kids, text \o <<"\n">>)
         ELSE LET k == Lay(kids[it.i], line, col)
              IN  LayItems(Tail(items), k.line, k.col, [kids EXCEPT ![it.i] = k.n],
                           text \o k.w)

\* a document: the root block, every statement starting on a line of its own
RECURSIVE LayLines(_, _, _)
LayLines(stmts, i, line) ==
    IF i > Len(stmts) THEN [kids |-> <<>>, text |-> <<>>, line |-> line - 1, last |-> 0]
    ELSE LET k == Lay(stmts[i], line, 0)
             rest == LayLines(stmts, i + 1, k.line + 1)
         IN  [kids |-> <<k.n>> \o rest.kids,
              text |-> k.w \o (IF i < Len(stmts) THEN <<"\n">> ELSE <<>>) \o rest.text,
              line |-> rest.line,
              last |-> IF i = Len(stmts) THEN k.col ELSE rest.last]

Document(stmts) ==
    LET r == LayLines(stmts, 1, 1)
    IN  [root |-> [RootBlock(r.kids) EXCEPT !.ls = 1, !.cs = 0, !.le = r.line,
                                             !.ce = r.last],
         source |-> r.text]

(***************************************************************************)
(* Scope chain (struct Scope, struct Symbol).  allScopes owns the frames;  *)
(* a Scope pointer is an index into allScopes and 0 is nullptr.  A Symbol  *)
(* pointer names the frame and the index of the entry in it.               *)
(***************************************************************************)
NullSym == [s |-> 0, i |-> 0]
Deref(scopes, ptr) == scopes[ptr.s].symbols[ptr.i]

Symbol(name, node, kind) == [name |-> name, node |-> node, kind |-> kind]
SymbolRO(name, node, kind, isReadonly) ==
    [name |-> name, node |-> node, kind |-> kind, isReadonly |-> isReadonly]

\* DeclarationFinder::declareSymbol: the symbols of every frame afterwards
declareSymbol(cur, scopes, name, node, kind) ==
    IF name = NullStr \/ cur = 0 THEN scopes
    ELSE [scopes EXCEPT ![cur].symbols = Append(@, Symbol(name, node, kind))]

\* SemanticTokenExtractor::declareSymbol
declareSymbolRO(cur, scopes, name, node, kind, isReadonly) ==
    IF name = NullStr \/ cur = 0 THEN scopes
    ELSE [scopes EXCEPT ![cur].symbols = Append(@, SymbolRO(name, node, kind, isReadonly))]

\* mutant: within a frame the first entry wins
findSymbol_FirstDeclared(cur, scopes, name) ==
    LET RECURSIVE inScope(_, _)
        inScope(s, i) ==
            IF i > Len(scopes[s].symbols) THEN 0
            ELSE IF scopes[s].symbols[i].name = name THEN i
            ELSE inScope(s, i + 1)
        RECURSIVE chain(_)
        chain(s) ==
            IF s = 0 THEN NullSym
            ELSE LET i == inScope(s, 1)
                 IN  IF i > 0 THEN [s |-> s, i |-> i] ELSE chain(scopes[s].parent)
    IN  chain(cur)

\* findSymbol: innermost frame first, within a frame the last entry first
findSymbol(cur, scopes, name) ==
    LET RECURSIVE inScope(_, _)
        inScope(s, i) ==
            IF i < 1 THEN 0
            ELSE IF scopes[s].symbols[i].name = name THEN i
            ELSE inScope(s, i - 1)
        RECURSIVE chain(_)
        chain(s) ==
            IF s = 0 THEN NullSym
            ELSE LET i == inScope(s, Len(scopes[s].symbols))
                 IN  IF i > 0 THEN [s |-> s, i |-> i] ELSE chain(scopes[s].parent)
    IN  chain(cur)

\* pushScope: the new frame is appended to allScopes and becomes current
pushScope(cur, scopes) ==
    [allScopes |-> Append(scopes, [symbols |-> <<>>, parent |-> cur]),
     currentScope |-> Len(scopes) + 1]

\* mutant: the parent is taken without checking that there is one
popScope_Unchecked(cur, scopes) == IF cur # 0 THEN scopes[cur].parent ELSE cur

\* popScope: the current scope afterwards
popScope(cur, scopes) ==
    IF cur # 0 /\ scopes[cur].parent # 0 THEN scopes[cur].parent ELSE cur

(***************************************************************************)
(* DeclarationFinder::containsPosition                                     *)
(***************************************************************************)
\* mutant: the end column is taken as inside the node
containsPosition_InclusiveEnd(node, tLine, tCol) ==
    IF tLine < node.ls \/ tLine > node.le THEN FALSE
    ELSE IF tLine = node.ls /\ tCol < node.cs THEN FALSE
    ELSE IF tLine = node.le /\ tCol > node.ce THEN FALSE
    ELSE TRUE


containsPosition(node, tLine, tCol) ==
    LET ls == node.ls
        le == node.le
        cs == node.cs
        ce == node.ce
    IN  IF tLine < ls \/ tLine > le THEN FALSE
        ELSE IF tLine = ls /\ tCol < cs THEN FALSE
        ELSE IF tLine = le /\ tCol >= ce THEN FALSE
        ELSE TRUE

\* getClassName (both walkers): the key's name when the key is a plain identifier
getClassName(cls) ==
    IF cls.kids[1] # Null /\ cls.kids[1].op = "TO_ID" THEN cls.kids[1].name ELSE NullStr

(***************************************************************************)
(* Work of a traversal.  visitNode is recursive; what a call still has to  *)
(* do after the child visit it is in is kept, in order, on the stack.      *)
(***************************************************************************)
IVisit(p) == [k |-> "visit", p |-> p]
\* for (item : items) { if (found) break; visit the item's nodes }
ILoop(groups) == [k |-> "loop", g |-> groups]
IDeclare(name, p, kind, ro) == [k |-> "declare", name |-> name, p |-> p, kind |-> kind, ro |-> ro]
IPush == [k |-> "push"]
IPop == [k |-> "pop"]
ITokenNamed(p, name, type, mods) ==
    [k |-> "tokenNamed", p |-> p, name |-> name, type |-> type, mods |-> mods]
ITokenNode(p, len, type, mods) ==
    [k |-> "tokenNode", p |-> p, len |-> len, type |-> type, mods |-> mods]
IToken(line, col, len, type, mods) ==
    [k |-> "token", line |-> line, col |-> col, len |-> len, type |-> type, mods |-> mods]

Kid(p, i) == Append(p, i)
\* if (child) child->visit(this)
VisitIf(n, p, i) == IF n.kids[i] # Null THEN <<IVisit(Kid(p, i))>> ELSE <<>>
\* the kids from..to, one group each
EachKid(p, from, to) == [j \in 1..(to - from + 1) |-> <<Kid(p, from + j - 1)>>]
\* the member values of a class or table whose members start at kid `from`
MemberValues(n, p, from) ==
    LET cnt == (Len(n.kids) - from + 1) \div 2
        all == [j \in 1..cnt |-> from + 2 * (j - 1) + 1]
        RECURSIVE pick(_)
        pick(j) == IF j > cnt THEN <<>>
                   ELSE (IF n.kids[all[j]] # Null THEN <<Kid(p, all[j])>> ELSE <<>>)
                        \o pick(j + 1)
    IN  pick(1)
Groups(paths) == [j \in 1..Len(paths) |-> <<paths[j]>>]
Visits(paths) == [j \in 1..Len(paths) |-> IVisit(paths[j])]

(***************************************************************************)
(* DeclarationFinder::visitNode, one operator per case of the switch: the  *)
(* work the case does, in order.                                           *)
(***************************************************************************)
\* a block case that leaves its scope open
DF_Block_NoPop(n, p) ==
    LET needsScope == ~n.flag
    IN  (IF needsScope THEN <<IPush>> ELSE <<>>)
        \o <<ILoop(EachKid(p, 1, Len(n.kids)))>>

DF_Block(n, p) ==
    LET needsScope == ~n.flag
    IN  (IF needsScope THEN <<IPush>> ELSE <<>>)
        \o <<ILoop(EachKid(p, 1, Len(n.kids)))>>
        \o (IF needsScope THEN <<IPop>> ELSE <<>>)

RECURSIVE DF_Params(_, _, _)
DF_Params(n, p, j) ==
    IF j > Len(n.kids) THEN <<>>
    ELSE <<IDeclare(n.kids[j].name, Kid(p, j), "parameter", FALSE)>> \o DF_Params(n, p, j + 1)

\* a function case that declares the name inside the function's own scope
DF_Function_NameInside(n, p) ==
    <<IPush>>
    \o (IF n.name # NullStr /\ n.name # EmptyStr
        THEN <<IDeclare(n.name, p, "function", FALSE)>> ELSE <<>>)
    \o DF_Params(n, p, 2)
    \o VisitIf(n, p, 1)
    \o <<IPop>>

DF_Function(n, p) ==
    (IF n.name # NullStr /\ n.name # EmptyStr
     THEN <<IDeclare(n.name, p, "function", FALSE)>> ELSE <<>>)
    \o <<IPush>>
    \o DF_Params(n, p, 2)
    \o VisitIf(n, p, 1)
    \o <<IPop>>

\* a class case that gives the base and the members a scope of their own
DF_Class_OwnScope(n, p) ==
    LET name == getClassName(n)
    IN  (IF name # NullStr THEN <<IDeclare(name, p, "class", FALSE)>> ELSE <<>>)
        \o <<IPush>>
        \o VisitIf(n, p, 2)
        \o <<ILoop(Groups(MemberValues(n, p, 3)))>>
        \o <<IPop>>

DF_Class(n, p) ==
    LET name == getClassName(n)
    IN  (IF name # NullStr THEN <<IDeclare(name, p, "class", FALSE)>> ELSE <<>>)
        \o VisitIf(n, p, 2)
        \o <<ILoop(Groups(MemberValues(n, p, 3)))>>

RECURSIVE DF_EnumConsts(_, _, _)
DF_EnumConsts(n, p, j) ==
    IF j > Len(n.aux) THEN <<>>
    ELSE <<IDeclare(n.aux[j].name, p, "enum", FALSE)>> \o DF_EnumConsts(n, p, j + 1)
\* an enum case that declares the members as well
DF_Enum_WithMembers(n, p) == <<IDeclare(n.name, p, "enum", FALSE)>> \o DF_EnumConsts(n, p, 1)

DF_Enum(n, p) == <<IDeclare(n.name, p, "enum", FALSE)>>

\* mutant: the variable is declared before its initializer is visited
DF_Var_DeclareFirst(n, p) ==
    <<IDeclare(n.name, p, IF n.flag THEN "variable" ELSE "binding", FALSE)>>
    \o VisitIf(n, p, 1)


DF_Var(n, p) ==
    LET kind == IF n.flag THEN "variable" ELSE "binding"
    IN  VisitIf(n, p, 1) \o <<IDeclare(n.name, p, kind, FALSE)>>

DF_Const(n, p) == VisitIf(n, p, 1) \o <<IDeclare(n.name, p, "constant", FALSE)>>

DF_DeclGroup(n, p) == <<ILoop(EachKid(p, 1, Len(n.kids)))>>

RECURSIVE DF_Bindings(_, _, _)
DF_Bindings(n, p, j) ==
    IF j > Len(n.kids) THEN <<>>
    ELSE <<IDeclare(n.kids[j].name, Kid(p, j),
                    IF n.kids[j].flag THEN "variable" ELSE "binding", FALSE)>>
         \o DF_Bindings(n, p, j + 1)

DF_Destructure(n, p) == VisitIf(n, p, 1) \o DF_Bindings(n, p, 2)

\* a slot loop that declares every slot under its own name
RECURSIVE DF_Slots_NameOnly(_, _, _)
DF_Slots_NameOnly(n, p, j) ==
    IF j > Len(n.aux) THEN <<>>
    ELSE (IF n.aux[j].name = s_star THEN <<>>
          ELSE <<IDeclare(n.aux[j].name, p, "import", FALSE)>>)
         \o DF_Slots_NameOnly(n, p, j + 1)

RECURSIVE DF_Slots(_, _, _)
DF_Slots(n, p, j) ==
    IF j > Len(n.aux) THEN <<>>
    ELSE (IF n.aux[j].name = s_star THEN <<>>
          ELSE LET name == IF n.aux[j].alias # NullStr THEN n.aux[j].alias
                           ELSE n.aux[j].name
               IN  <<IDeclare(name, p, "import", FALSE)>>)
         \o DF_Slots(n, p, j + 1)

DF_Import(n, p) ==
    IF n.aux = <<>>
    THEN (IF n.name # NullStr THEN <<IDeclare(n.name, p, "import", FALSE)>> ELSE <<>>)
    ELSE DF_Slots(n, p, 1)

\* mutant: the container is visited inside the loop scope
DF_Foreach_ContainerInside(n, p) ==
    <<IPush>>
    \o (IF n.kids[2] # Null THEN <<IDeclare(n.kids[2].name, Kid(p, 2), "variable", FALSE)>>
        ELSE <<>>)
    \o (IF n.kids[3] # Null THEN <<IDeclare(n.kids[3].name, Kid(p, 3), "variable", FALSE)>>
        ELSE <<>>)
    \o VisitIf(n, p, 1)
    \o VisitIf(n, p, 4)
    \o <<IPop>>


DF_Foreach(n, p) ==
    VisitIf(n, p, 1)
    \o <<IPush>>
    \o (IF n.kids[2] # Null THEN <<IDeclare(n.kids[2].name, Kid(p, 2), "variable", FALSE)>>
        ELSE <<>>)
    \o (IF n.kids[3] # Null THEN <<IDeclare(n.kids[3].name, Kid(p, 3), "variable", FALSE)>>
        ELSE <<>>)
    \o VisitIf(n, p, 4)
    \o <<IPop>>

\* a for case that opens the scope after the initializer
DF_For_InitOutside(n, p) ==
    VisitIf(n, p, 1) \o <<IPush>> \o VisitIf(n, p, 2) \o VisitIf(n, p, 3)
    \o VisitIf(n, p, 4) \o <<IPop>>

DF_For(n, p) ==
    <<IPush>> \o VisitIf(n, p, 1) \o VisitIf(n, p, 2) \o VisitIf(n, p, 3)
    \o VisitIf(n, p, 4) \o <<IPop>>

DF_While(n, p) == VisitIf(n, p, 1) \o VisitIf(n, p, 2)

DF_DoWhile(n, p) == VisitIf(n, p, 1) \o VisitIf(n, p, 2)

\* a try case that opens the catch scope before the try body
DF_Try_ScopeFirst(n, p) ==
    <<IPush>>
    \o (IF n.kids[2] # Null THEN <<IDeclare(n.kids[2].name, Kid(p, 2), "exception", FALSE)>>
        ELSE <<>>)
    \o VisitIf(n, p, 1)
    \o VisitIf(n, p, 3)
    \o <<IPop>>

DF_Try(n, p) ==
    VisitIf(n, p, 1)
    \o <<IPush>>
    \o (IF n.kids[2] # Null THEN <<IDeclare(n.kids[2].name, Kid(p, 2), "exception", FALSE)>>
        ELSE <<>>)
    \o VisitIf(n, p, 3)
    \o <<IPop>>

\* the cases of a switch statement: (val, stmt) pairs from kid 3 on
SwitchCases(n, p) ==
    LET cnt == (Len(n.kids) - 2) \div 2
    IN  [j \in 1..cnt |->
            (IF n.kids[2 * j + 1] # Null THEN <<Kid(p, 2 * j + 1)>> ELSE <<>>)
            \o (IF n.kids[2 * j + 2] # Null THEN <<Kid(p, 2 * j + 2)>> ELSE <<>>)]

\* TO_IF, TO_SWITCH, TO_RETURN, TO_YIELD, TO_THROW, TO_EXPR_STMT
DF_Statement(n, p) ==
    CASE n.op = "TO_IF" -> VisitIf(n, p, 1) \o VisitIf(n, p, 2) \o VisitIf(n, p, 3)
      [] n.op = "TO_SWITCH" ->
            VisitIf(n, p, 1) \o <<ILoop(SwitchCases(n, p))>> \o VisitIf(n, p, 2)
      [] OTHER -> VisitIf(n, p, 1)

DF_GetField(n, p) == VisitIf(n, p, 1)

\* a table case that gives the members a scope of their own
DF_Table_OwnScope(n, p) == <<IPush, ILoop(Groups(MemberValues(n, p, 1))), IPop>>

DF_Table(n, p) == <<ILoop(Groups(MemberValues(n, p, 1)))>>

\* the expression cases and the default case
DF_Expression(n, p) ==
    CASE n.op = "TO_DECL_EXPR" -> VisitIf(n, p, 1)
      [] n.op = "TO_CALL" -> VisitIf(n, p, 1) \o <<ILoop(EachKid(p, 2, Len(n.kids)))>>
      [] n.op = "TO_SETFIELD" -> VisitIf(n, p, 1) \o VisitIf(n, p, 2)
      [] n.op = "TO_GETSLOT" -> VisitIf(n, p, 1) \o VisitIf(n, p, 2)
      [] n.op = "TO_SETSLOT" -> VisitIf(n, p, 1) \o VisitIf(n, p, 2) \o VisitIf(n, p, 3)
      [] n.op = "TO_TERNARY" -> VisitIf(n, p, 1) \o VisitIf(n, p, 2) \o VisitIf(n, p, 3)
      [] n.op = "TO_ARRAYEXPR" -> <<ILoop(EachKid(p, 1, Len(n.kids)))>>
      [] n.op = "TO_COMMA" -> <<ILoop(EachKid(p, 1, Len(n.kids)))>>
      [] n.op = "TO_CODE_BLOCK_EXPR" -> VisitIf(n, p, 1)
      [] n.op \in BinaryOps -> VisitIf(n, p, 1) \o VisitIf(n, p, 2)
      [] n.op \in UnaryOps -> VisitIf(n, p, 1)
      [] n.op = "TO_INC" -> VisitIf(n, p, 1)
      [] OTHER -> <<>>

\* the switch of DeclarationFinder::visitNode (TO_ID is handled where it is visited)
DF_Dispatch(n, p) ==
    CASE n.op = "TO_BLOCK" -> DF_Block(n, p)
      [] n.op \in {"TO_FUNCTION", "TO_CONSTRUCTOR"} -> DF_Function(n, p)
      [] n.op = "TO_CLASS" -> DF_Class(n, p)
      [] n.op = "TO_ENUM" -> DF_Enum(n, p)
      [] n.op = "TO_VAR" -> DF_Var(n, p)
      [] n.op = "TO_CONST" -> DF_Const(n, p)
      [] n.op = "TO_DECL_GROUP" -> DF_DeclGroup(n, p)
      [] n.op = "TO_DESTRUCTURE" -> DF_Destructure(n, p)
      [] n.op = "TO_IMPORT" -> DF_Import(n, p)
      [] n.op = "TO_FOREACH" -> DF_Foreach(n, p)
      [] n.op = "TO_FOR" -> DF_For(n, p)
      [] n.op = "TO_WHILE" -> DF_While(n, p)
      [] n.op = "TO_DOWHILE" -> DF_DoWhile(n, p)
      [] n.op = "TO_TRY" -> DF_Try(n, p)
      [] n.op \in {"TO_IF", "TO_SWITCH", "TO_RETURN", "TO_YIELD", "TO_THROW",
                   "TO_EXPR_STMT"} -> DF_Statement(n, p)
      [] n.op = "TO_GETFIELD" -> DF_GetField(n, p)
      [] n.op = "TO_TABLE" -> DF_Table(n, p)
      [] OTHER -> DF_Expression(n, p)

(***************************************************************************)
(* SemanticTokenExtractor: token legend, line index, name search.          *)
(***************************************************************************)
TT_VARIABLE == 0
TT_PARAMETER == 1
TT_FUNCTION == 2
TT_CLASS == 3
TT_ENUM == 4
TT_ENUM_MEMBER == 5
TT_PROPERTY == 6
TT_IMPORT == 7
TM_DECLARATION == 1
TM_READONLY == 2

\* buildLineIndex: the 0-based offset at which each line starts
buildLineIndex(src) ==
    LET RECURSIVE scan(_)
        scan(i) == IF i >= Len(src) THEN <<>>
                   ELSE (IF src[i + 1] = "\n" THEN <<i + 1>> ELSE <<>>) \o scan(i + 1)
    IN  <<0>> \o scan(0)

\* mutant: any occurrence of the name counts, also inside a longer identifier
findNameInLine_Substring(offsets, src, line, startCol, name) ==
    IF line < 1 \/ line > Len(offsets) THEN -1
    ELSE LET lineStart == offsets[line]
             lineEnd == IF line < Len(offsets) THEN offsets[line + 1] ELSE Len(src)
             searchStart == lineStart + startCol
         IN  IF searchStart < 0 \/ searchStart >= lineEnd THEN -1
             ELSE LET nameLen == strlen(name)
                      searchLen == lineEnd - searchStart
                      ch(k) == src[searchStart + k + 1]
                      match(i) == \A k \in 0..(nameLen - 1) : ch(i + k) = name[k + 1]
                      RECURSIVE search(_)
                      search(i) ==
                          IF i + nameLen > searchLen THEN -1
                          ELSE IF match(i) THEN startCol + i
                          ELSE search(i + 1)
                  IN  search(0)

\* findNameInLine: the column of the first whole-word occurrence of name on the
\* line at or after startCol, or -1.  src[k + 1] is the character at offset k.
findNameInLine(offsets, src, line, startCol, name) ==
    IF line < 1 \/ line > Len(offsets) THEN -1
    ELSE LET lineStart == offsets[line]
             lineEnd == IF line < Len(offsets) THEN offsets[line + 1] ELSE Len(src)
             searchStart == lineStart + startCol
         IN  \* searchStart is a size_t: a negative sum wraps to a huge offset
             IF searchStart < 0 \/ searchStart >= lineEnd THEN -1
             ELSE LET nameLen == strlen(name)
                      searchLen == lineEnd - searchStart
                      ch(k) == src[searchStart + k + 1]
                      wordChar(k) == isalnum(ch(k)) \/ ch(k) = "_"
                      match(i) == \A k \in 0..(nameLen - 1) : ch(i + k) = name[k + 1]
                      startOk(i) == (i = 0) \/ ~wordChar(i - 1)
                      endOk(i) == (i + nameLen >= searchLen) \/ ~wordChar(i + nameLen)
                      RECURSIVE search(_)
                      search(i) ==
                          IF i + nameLen > searchLen THEN -1
                          ELSE IF match(i) /\ startOk(i) /\ endOk(i) THEN startCol + i
                          ELSE search(i + 1)
                  IN  search(0)

\* addToken: the token list afterwards
addToken(toks, line, col, length, type, modifiers) ==
    IF length > 0 /\ col >= 0
    THEN Append(toks, [line |-> line, col |-> col, length |-> length,
                       type |-> type, modifiers |-> modifiers])
    ELSE toks

addTokenForNode(toks, node, length, type, modifiers) ==
    addToken(toks, node.ls, node.cs, length, type, modifiers)

addTokenForNamedDecl(toks, offsets, src, node, name, type, modifiers) ==
    IF name = NullStr \/ name = EmptyStr THEN toks
    ELSE LET len == strlen(name)
             line == node.ls
             col == findNameInLine(offsets, src, line, node.cs, name)
         IN  IF col >= 0 THEN addToken(toks, line, col, len, type, modifiers) ELSE toks

kindToTokenType(kind) ==
    CASE kind = "variable" -> TT_VARIABLE
      [] kind = "binding" -> TT_VARIABLE
      [] kind = "parameter" -> TT_PARAMETER
      [] kind = "function" -> TT_FUNCTION
      [] kind = "class" -> TT_CLASS
      [] kind = "enum" -> TT_ENUM
      [] kind = "constant" -> TT_VARIABLE
      [] kind = "import" -> TT_IMPORT
      [] kind = "exception" -> TT_VARIABLE
      [] OTHER -> TT_VARIABLE

\* the comparison toJson sorts by
TokenLess(a, b) == IF a.line # b.line THEN a.line < b.line ELSE a.col < b.col

\* mutant: the tokens are returned in the order they were added
SortTokens_Unsorted(toks) == toks

\* std::sort(tokens.begin(), tokens.end(), TokenLess)
SortTokens(toks) ==
    LET RECURSIVE insert(_, _)
        insert(t, sorted) ==
            IF sorted = <<>> THEN <<t>>
            ELSE IF TokenLess(t, Head(sorted)) THEN <<t>> \o sorted
            ELSE <<Head(sorted)>> \o insert(t, Tail(sorted))
        RECURSIVE run(_, _)
        run(rest, sorted) ==
            IF rest = <<>> THEN sorted ELSE run(Tail(rest), insert(Head(rest), sorted))
    IN  run(toks, <<>>)

(***************************************************************************)
(* SemanticTokenExtractor::visitNode, one operator per case of the switch. *)
(***************************************************************************)
NonEmpty(name) == name # NullStr /\ name # EmptyStr

ST_Block(n, p) ==
    LET needsScope == ~n.flag
    IN  (IF needsScope THEN <<IPush>> ELSE <<>>)
        \o Visits([j \in 1..Len(n.kids) |-> Kid(p, j)])
        \o (IF needsScope THEN <<IPop>> ELSE <<>>)

RECURSIVE ST_Params(_, _, _)
ST_Params(n, p, j) ==
    IF j > Len(n.kids) THEN <<>>
    ELSE (IF NonEmpty(n.kids[j].name)
          THEN <<ITokenNode(Kid(p, j), strlen(n.kids[j].name), TT_PARAMETER, TM_DECLARATION),
                 IDeclare(n.kids[j].name, Kid(p, j), "parameter", FALSE)>>
          ELSE <<>>)
         \o ST_Params(n, p, j + 1)

ST_Function(n, p) ==
    (IF NonEmpty(n.name)
     THEN <<ITokenNamed(p, n.name, TT_FUNCTION, TM_DECLARATION),
            IDeclare(n.name, p, "function", FALSE)>>
     ELSE <<>>)
    \o <<IPush>>
    \o ST_Params(n, p, 2)
    \o VisitIf(n, p, 1)
    \o <<IPop>>

ST_Class(n, p) ==
    LET name == getClassName(n)
    IN  (IF name # NullStr
         THEN <<ITokenNode(Kid(p, 1), strlen(name), TT_CLASS, TM_DECLARATION),
                IDeclare(name, p, "class", FALSE)>>
         ELSE <<>>)
        \o VisitIf(n, p, 2)
        \o Visits(MemberValues(n, p, 3))

ST_Enum(n, p) ==
    IF NonEmpty(n.name)
    THEN <<ITokenNamed(p, n.name, TT_ENUM, TM_DECLARATION),
           IDeclare(n.name, p, "enum", FALSE)>>
    ELSE <<>>

ST_Var(n, p) ==
    LET readonly == ~n.flag
        mods == TM_DECLARATION + (IF readonly THEN TM_READONLY ELSE 0)
    IN  VisitIf(n, p, 1)
        \o (IF NonEmpty(n.name)
            THEN <<ITokenNamed(p, n.name, TT_VARIABLE, mods),
                   IDeclare(n.name, p, IF readonly THEN "binding" ELSE "variable", readonly)>>
            ELSE <<>>)

ST_Const(n, p) ==
    VisitIf(n, p, 1)
    \o (IF NonEmpty(n.name)
        THEN <<ITokenNamed(p, n.name, TT_VARIABLE, TM_DECLARATION + TM_READONLY),
               IDeclare(n.name, p, "constant", TRUE)>>
        ELSE <<>>)

ST_DeclGroup(n, p) == Visits([j \in 1..Len(n.kids) |-> Kid(p, j)])

RECURSIVE ST_Bindings(_, _, _)
ST_Bindings(n, p, j) ==
    IF j > Len(n.kids) THEN <<>>
    ELSE LET d == n.kids[j]
             readonly == ~d.flag
             mods == TM_DECLARATION + (IF readonly THEN TM_READONLY ELSE 0)
         IN  (IF NonEmpty(d.name)
              THEN <<ITokenNamed(Kid(p, j), d.name, TT_VARIABLE, mods),
                     IDeclare(d.name, Kid(p, j),
                              IF readonly THEN "binding" ELSE "variable", readonly)>>
              ELSE <<>>)
             \o ST_Bindings(n, p, j + 1)

ST_Destructure(n, p) == VisitIf(n, p, 1) \o ST_Bindings(n, p, 2)

RECURSIVE ST_Slots(_, _, _, _, _)
ST_Slots(n, p, j, offsets, src) ==
    IF j > Len(n.aux) THEN <<>>
    ELSE LET slot == n.aux[j]
             line == slot.line
             col == slot.column
         IN  (IF slot.name = s_star THEN <<>>
              ELSE IF slot.alias # NullStr
              THEN LET name == slot.alias
                       len == strlen(name)
                       aliasCol == findNameInLine(offsets, src, line,
                                                  col + strlen(slot.name), name)
                   IN  (IF aliasCol >= 0
                        THEN <<IToken(line, aliasCol, len, TT_IMPORT, TM_DECLARATION)>>
                        ELSE <<>>)
                       \o <<IDeclare(name, p, "import", TRUE)>>
              ELSE <<IToken(line, col, strlen(slot.name), TT_IMPORT, TM_DECLARATION),
                     IDeclare(slot.name, p, "import", TRUE)>>)
             \o ST_Slots(n, p, j + 1, offsets, src)

ST_Import(n, p, offsets, src) ==
    IF n.aux = <<>>
    THEN IF n.name # NullStr
         THEN LET name == n.name
                  line == n.ls
                  len == strlen(name)
                  asCol == findNameInLine(offsets, src, line, n.cs, s_as)
                  aliasCol == findNameInLine(offsets, src, line, asCol + 2, name)
              IN  (IF asCol >= 0 /\ aliasCol >= 0
                   THEN <<IToken(line, aliasCol, len, TT_IMPORT, TM_DECLARATION)>>
                   ELSE <<>>)
                  \o <<IDeclare(name, p, "import", TRUE)>>
         ELSE <<>>
    ELSE ST_Slots(n, p, 1, offsets, src)

ST_LoopVar(n, p, i) ==
    IF n.kids[i] # Null /\ NonEmpty(n.kids[i].name)
    THEN <<ITokenNamed(p, n.kids[i].name, TT_VARIABLE, TM_DECLARATION),
           IDeclare(n.kids[i].name, Kid(p, i), "variable", FALSE)>>
    ELSE <<>>

ST_Foreach(n, p) ==
    VisitIf(n, p, 1)
    \o <<IPush>>
    \o ST_LoopVar(n, p, 2)
    \o ST_LoopVar(n, p, 3)
    \o VisitIf(n, p, 4)
    \o <<IPop>>

\* a for loop that opens no scope
ST_For_NoScope(n, p) ==
    VisitIf(n, p, 1) \o VisitIf(n, p, 2) \o VisitIf(n, p, 3) \o VisitIf(n, p, 4)

ST_For(n, p) ==
    <<IPush>> \o VisitIf(n, p, 1) \o VisitIf(n, p, 2) \o VisitIf(n, p, 3)
    \o VisitIf(n, p, 4) \o <<IPop>>

ST_While(n, p) == VisitIf(n, p, 1) \o VisitIf(n, p, 2)

ST_DoWhile(n, p) == VisitIf(n, p, 1) \o VisitIf(n, p, 2)

ST_Try(n, p) ==
    VisitIf(n, p, 1)
    \o <<IPush>>
    \o (IF n.kids[2] # Null /\ NonEmpty(n.kids[2].name)
        THEN <<ITokenNode(Kid(p, 2), strlen(n.kids[2].name), TT_VARIABLE, TM_DECLARATION),
               IDeclare(n.kids[2].name, Kid(p, 2), "exception", FALSE)>>
        ELSE <<>>)
    \o VisitIf(n, p, 3)
    \o <<IPop>>

RECURSIVE Flatten(_)
Flatten(groups) == IF groups = <<>> THEN <<>> ELSE Head(groups) \o Flatten(Tail(groups))

\* TO_IF, TO_SWITCH, TO_RETURN, TO_YIELD, TO_THROW, TO_EXPR_STMT
ST_Statement(n, p) ==
    CASE n.op = "TO_IF" -> VisitIf(n, p, 1) \o VisitIf(n, p, 2) \o VisitIf(n, p, 3)
      [] n.op = "TO_SWITCH" ->
            VisitIf(n, p, 1) \o Visits(Flatten(SwitchCases(n, p))) \o VisitIf(n, p, 2)
      [] OTHER -> VisitIf(n, p, 1)

\* TO_ID: the token of an identifier that resolves
ST_Id(n, p, cur, scopes) ==
    IF ~NonEmpty(n.name) THEN <<>>
    ELSE IF n.name = s_this \/ n.name = s_base THEN <<>>
    ELSE LET sym == findSymbol(cur, scopes, n.name)
         IN  IF sym # NullSym
             THEN LET type == kindToTokenType(Deref(scopes, sym).kind)
                      mods == IF Deref(scopes, sym).isReadonly THEN TM_READONLY ELSE 0
                  IN  <<ITokenNode(p, strlen(n.name), type, mods)>>
             ELSE <<>>

\* does the receiver of this field access name an enum?
ST_IsEnumAccess(n, cur, scopes) ==
    /\ n.kids[1] # Null
    /\ n.kids[1].op = "TO_ID"
    /\ LET sym == findSymbol(cur, scopes, n.kids[1].name)
       IN  sym # NullSym /\ Deref(scopes, sym).kind = "enum"

\* a field case that knows no enums
ST_GetField_AlwaysProperty(n, p, cur, scopes) ==
    VisitIf(n, p, 1)
    \o (IF NonEmpty(n.name)
        THEN <<IToken(n.le, n.ce - strlen(n.name), strlen(n.name), TT_PROPERTY, 0)>>
        ELSE <<>>)

ST_GetField(n, p, cur, scopes) ==
    LET fieldName == n.name
        fieldLen == strlen(fieldName)
        fieldCol == n.ce - fieldLen
    IN  IF ST_IsEnumAccess(n, cur, scopes)
        THEN <<ITokenNode(Kid(p, 1), strlen(n.kids[1].name), TT_ENUM, 0)>>
             \o (IF NonEmpty(fieldName)
                 THEN <<IToken(n.le, fieldCol, fieldLen, TT_ENUM_MEMBER, TM_READONLY)>>
                 ELSE <<>>)
        ELSE VisitIf(n, p, 1)
             \o (IF NonEmpty(fieldName)
                 THEN <<IToken(n.le, fieldCol, fieldLen, TT_PROPERTY, 0)>>
                 ELSE <<>>)

ST_Table(n, p) == Visits(MemberValues(n, p, 1))

\* the expression cases and the default case
ST_Expression(n, p) ==
    CASE n.op = "TO_DECL_EXPR" -> VisitIf(n, p, 1)
      [] n.op = "TO_CALL" ->
            VisitIf(n, p, 1) \o Visits([j \in 1..(Len(n.kids) - 1) |-> Kid(p, j + 1)])
      [] n.op = "TO_SETFIELD" -> VisitIf(n, p, 1) \o VisitIf(n, p, 2)
      [] n.op = "TO_GETSLOT" -> VisitIf(n, p, 1) \o VisitIf(n, p, 2)
      [] n.op = "TO_SETSLOT" -> VisitIf(n, p, 1) \o VisitIf(n, p, 2) \o VisitIf(n, p, 3)
      [] n.op = "TO_TERNARY" -> VisitIf(n, p, 1) \o VisitIf(n, p, 2) \o VisitIf(n, p, 3)
      [] n.op = "TO_ARRAYEXPR" -> Visits([j \in 1..Len(n.kids) |-> Kid(p, j)])
      [] n.op = "TO_COMMA" -> Visits([j \in 1..Len(n.kids) |-> Kid(p, j)])
      [] n.op = "TO_CODE_BLOCK_EXPR" -> VisitIf(n, p, 1)
      [] n.op \in BinaryOps -> VisitIf(n, p, 1) \o VisitIf(n, p, 2)
      [] n.op \in UnaryOps -> VisitIf(n, p, 1)
      [] n.op = "TO_INC" -> VisitIf(n, p, 1)
      [] OTHER -> <<>>

\* the switch of SemanticTokenExtractor::visitNode
ST_Dispatch(n, p, cur, scopes, offsets, src) ==
    CASE n.op = "TO_BLOCK" -> ST_Block(n, p)
      [] n.op \in {"TO_FUNCTION", "TO_CONSTRUCTOR"} -> ST_Function(n, p)
      [] n.op = "TO_CLASS" -> ST_Class(n, p)
      [] n.op = "TO_ENUM" -> ST_Enum(n, p)
      [] n.op = "TO_VAR" -> ST_Var(n, p)
      [] n.op = "TO_CONST" -> ST_Const(n, p)
      [] n.op = "TO_DECL_GROUP" -> ST_DeclGroup(n, p)
      [] n.op = "TO_DESTRUCTURE" -> ST_Destructure(n, p)
      [] n.op = "TO_IMPORT" -> ST_Import(n, p, offsets, src)
      [] n.op = "TO_FOREACH" -> ST_Foreach(n, p)
      [] n.op = "TO_FOR" -> ST_For(n, p)
      [] n.op = "TO_WHILE" -> ST_While(n, p)
      [] n.op = "TO_DOWHILE" -> ST_DoWhile(n, p)
      [] n.op = "TO_TRY" -> ST_Try(n, p)
      [] n.op \in {"TO_IF", "TO_SWITCH", "TO_RETURN", "TO_YIELD", "TO_THROW",
                   "TO_EXPR_STMT"} -> ST_Statement(n, p)
      [] n.op = "TO_ID" -> ST_Id(n, p, cur, scopes)
      [] n.op = "TO_GETFIELD" -> ST_GetField(n, p, cur, scopes)
      [] n.op = "TO_TABLE" -> ST_Table(n, p)
      [] OTHER -> ST_Expression(n, p)

(***************************************************************************)
(* The calls of the host.  extractSemanticTokens(source) runs first and    *)
(* findDeclarationAt(source, line, col) second, on the same document; each *)
(* builds its own walker.                                                  *)
(***************************************************************************)
RECURSIVE PathsFrom(_, _)
PathsFrom(n, p) ==
    {p} \cup UNION {PathsFrom(n.kids[i], Kid(p, i)) :
                        i \in {j \in 1..Len(n.kids) : n.kids[j] # Null}}
AllPaths(tree) == IF tree = Null THEN {} ELSE PathsFrom(tree, <<>>)
IdPaths(tree) == {q \in AllPaths(tree) : At(tree, q).op = "TO_ID"}

FieldPaths(tree) ==
    {q \in AllPaths(tree) : At(tree, q).op = "TO_GETFIELD" /\ NonEmpty(At(tree, q).name)}

\* the positions the host asks about: the first and the last column of every
\* identifier, the last column of the field name of every field access, and the
\* start of the document
Targets(tree) ==
    {<<1, 0>>}
    \cup {<<At(tree, q).ls, At(tree, q).cs>> : q \in IdPaths(tree)}
    \cup {<<At(tree, q).le, At(tree, q).ce - 1>> : q \in IdPaths(tree)}
    \cup {<<At(tree, q).le, At(tree, q).ce - 1>> : q \in FieldPaths(tree)}

NoLocation == [line |-> 0, col |-> 0, endLine |-> 0, endCol |-> 0, kind |-> ""]
NoResult == [tokensDone |-> FALSE, tokens |-> <<>>,
             declDone |-> FALSE, found |-> FALSE, location |-> NoLocation]
\* popped: frames left by popScope; live: the frames entered and not yet left,
\* innermost last; underflow: popScope was called on the root frame;
\* matched: the identifier the finder matched; after: nodes processed with found set;
\* resolved: what each identifier resolved to in the classifier;
\* emitted: the tokens in the order they were added, as toJson found them;
\* calls: every addToken, addTokenForNode and addTokenForNamedDecl call made, with
\* the tokens it added;
\* nodes: the visitNode calls of the running walker that got past `if (found)
\* return`, in the order they were made:
\* the node, the scope that was current on entry, what the call stack held below
\* the call, and the scope that was current when the call returned (0: not yet)
NoHist == [popped |-> {}, live |-> <<>>, underflow |-> FALSE, matched |-> NullPath,
           after |-> 0, resolved |-> <<>>, emitted |-> <<>>, calls |-> <<>>,
           nodes |-> <<>>]

\* the history after visitNode was entered for the node at p
Entered(h, p, cur, below) ==
    [h EXCEPT !.nodes = Append(@, [p |-> p, cur |-> cur, rest |-> below, exit |-> 0])]
\* the history after a step that left `pending` on the call stack and `cur` current:
\* the calls that have nothing left to do have returned
Returned(h, pending, cur) ==
    [h EXCEPT !.nodes = [j \in DOMAIN @ |->
                            IF @[j].exit = 0 /\ @[j].rest >= Len(pending)
                            THEN [@[j] EXCEPT !.exit = cur] ELSE @[j]]]

\* the history after a popScope call made with `cur` current
Popped(h, cur) ==
    IF Len(h.live) > 1
    THEN [h EXCEPT !.popped = @ \cup {cur}, !.live = SubSeq(@, 1, Len(@) - 1)]
    ELSE [h EXCEPT !.underflow = TRUE]

finderVars == <<targetLine, targetCol, found, declarationNode, declarationKind>>

\* extractSemanticTokens: the parse failed, no walker is built
ExtractParseFailed ==
    /\ phase = "parsed"
    /\ root = Null
    /\ result' = [result EXCEPT !.tokensDone = TRUE, !.tokens = <<>>]
    /\ phase' = "idle"
    /\ UNCHANGED <<root, source, stack, finderVars, currentScope, allScopes,
                   tokens, lineOffsets, hist>>
    /\ UNCHANGED hostVars

\* SemanticTokenExtractor::SemanticTokenExtractor, then root->visit(&extractor)
NewSemanticTokenExtractor ==
    /\ phase = "parsed"
    /\ root # Null
    /\ lineOffsets' = buildLineIndex(source)
    /\ tokens' = <<>>
    /\ LET r == pushScope(0, <<>>)
       IN  /\ allScopes' = r.allScopes
           /\ currentScope' = r.currentScope
    /\ stack' = <<IVisit(<<>>)>>
    /\ phase' = "tokens"
    /\ hist' = [hist EXCEPT !.live = <<1>>]
    /\ UNCHANGED <<root, source, finderVars, result>>
    /\ UNCHANGED hostVars

\* SemanticTokenExtractor::visitNode up to its first call
ST_visitNode ==
    /\ phase = "tokens"
    /\ stack # <<>>
    /\ Head(stack).k = "visit"
    /\ LET p == Head(stack).p
           n == At(root, p)
           sym == IF n.op = "TO_ID" /\ NonEmpty(n.name)
                     /\ n.name # s_this /\ n.name # s_base
                  THEN findSymbol(currentScope, allScopes, n.name)
                  ELSE NullSym
           seen == IF n.op = "TO_ID"
                   THEN <<[id |-> p,
                           decl |-> IF sym = NullSym THEN NullPath
                                    ELSE Deref(allScopes, sym).node]>>
                   ELSE IF n.op = "TO_GETFIELD" /\ ST_IsEnumAccess(n, currentScope, allScopes)
                   THEN <<[id |-> Kid(p, 1),
                           decl |-> Deref(allScopes,
                                          findSymbol(currentScope, allScopes,
                                                     n.kids[1].name)).node]>>
                   ELSE <<>>
       IN  /\ stack' = ST_Dispatch(n, p, currentScope, allScopes, lineOffsets, source)
                       \o Tail(stack)
           /\ hist' = Returned(Entered([hist EXCEPT !.resolved = @ \o seen],
                                        p, currentScope, Len(stack) - 1),
                                stack', currentScope)
    /\ UNCHANGED <<phase, root, source, finderVars, currentScope, allScopes,
                   tokens, lineOffsets, result>>
    /\ UNCHANGED hostVars

\* addToken, addTokenForNode, addTokenForNamedDecl
ST_addToken ==
    /\ phase = "tokens"
    /\ stack # <<>>
    /\ Head(stack).k \in {"token", "tokenNode", "tokenNamed"}
    /\ LET i == Head(stack)
           after ==
             CASE i.k = "token" -> addToken(tokens, i.line, i.col, i.len, i.type, i.mods)
               [] i.k = "tokenNode" ->
                     addTokenForNode(tokens, At(root, i.p), i.len, i.type, i.mods)
               [] OTHER ->
                     addTokenForNamedDecl(tokens, lineOffsets, source, At(root, i.p),
                                          i.name, i.type, i.mods)
       IN  /\ tokens' = after
           /\ hist' = Returned([hist EXCEPT !.calls =
                                   Append(@, [i |-> i,
                                              new |-> SubSeq(after, Len(tokens) + 1,
                                                             Len(after))])],
                                Tail(stack), currentScope)
    /\ stack' = Tail(stack)
    /\ UNCHANGED <<phase, root, source, finderVars, currentScope, allScopes,
                   lineOffsets, result>>
    /\ UNCHANGED hostVars

\* toJson and the return of extractSemanticTokens
ToJson ==
    /\ phase = "tokens"
    /\ stack = <<>>
    /\ tokens' = SortTokens(tokens)
    /\ result' = [result EXCEPT !.tokensDone = TRUE, !.tokens = SortTokens(tokens)]
    /\ phase' = "idle"
    /\ hist' = [hist EXCEPT !.emitted = tokens]
    /\ UNCHANGED <<root, source, stack, finderVars, currentScope, allScopes,
                   lineOffsets>>
    /\ UNCHANGED hostVars

\* findDeclarationAt: the parse failed
FindParseFailed ==
    /\ phase = "idle"
    /\ root = Null
    /\ result' = [result EXCEPT !.declDone = TRUE, !.found = FALSE]
    /\ phase' = "done"
    /\ UNCHANGED <<root, source, stack, finderVars, currentScope, allScopes,
                   tokens, lineOffsets, hist>>
    /\ UNCHANGED hostVars

\* DeclarationFinder::DeclarationFinder(line, col), then root->visit(&finder)
NewDeclarationFinder ==
    /\ phase = "idle"
    /\ root # Null
    /\ \E t \in Targets(root) :
          /\ targetLine' = t[1]
          /\ targetCol' = t[2]
    /\ found' = FALSE
    /\ declarationNode' = NullPath
    /\ declarationKind' = ""
    /\ LET r == pushScope(0, <<>>)
       IN  /\ allScopes' = r.allScopes
           /\ currentScope' = r.currentScope
    /\ tokens' = <<>>
    /\ lineOffsets' = <<>>
    /\ stack' = <<IVisit(<<>>)>>
    /\ hist' = [hist EXCEPT !.popped = {}, !.live = <<1>>, !.underflow = FALSE,
                            !.nodes = <<>>]
    /\ phase' = "find"
    /\ UNCHANGED <<root, source, result>>
    /\ UNCHANGED hostVars

\* mutant: the traversal goes on after a match
AlreadyFound_Never(f) == FALSE

\* if (found) return;
AlreadyFound(f) == f

\* DeclarationFinder::visitNode up to its first call
DF_visitNode ==
    /\ phase = "find"
    /\ stack # <<>>
    /\ Head(stack).k = "visit"
    /\ LET p == Head(stack).p
           n == At(root, p)
           here(h) == Returned(Entered(h, p, currentScope, Len(stack) - 1),
                               stack', currentScope)
       IN  IF AlreadyFound(found)
           THEN /\ stack' = Tail(stack)
                /\ hist' = Returned(hist, stack', currentScope)
                /\ UNCHANGED <<found, declarationNode, declarationKind>>
           ELSE IF n.op = "TO_ID"
           THEN LET sym == IF containsPosition(n, targetLine, targetCol)
                           THEN findSymbol(currentScope, allScopes, n.name)
                           ELSE NullSym
                IN  /\ stack' = Tail(stack)
                    /\ IF sym # NullSym
                       THEN /\ found' = TRUE
                            /\ declarationNode' = Deref(allScopes, sym).node
                            /\ declarationKind' = Deref(allScopes, sym).kind
                            /\ hist' = here([hist EXCEPT !.matched = p,
                                               !.after = IF found THEN @ + 1 ELSE @])
                       ELSE /\ UNCHANGED <<found, declarationNode, declarationKind>>
                            /\ hist' = here([hist EXCEPT
                                               !.after = IF found THEN @ + 1 ELSE @])
           ELSE /\ stack' = DF_Dispatch(n, p) \o Tail(stack)
                /\ hist' = here([hist EXCEPT !.after = IF found THEN @ + 1 ELSE @])
                /\ UNCHANGED <<found, declarationNode, declarationKind>>
    /\ UNCHANGED <<phase, root, source, targetLine, targetCol, currentScope, allScopes,
                   tokens, lineOffsets, result>>
    /\ UNCHANGED hostVars

\* one turn of a loop that leaves when found is set
DF_loop ==
    /\ phase = "find"
    /\ stack # <<>>
    /\ Head(stack).k = "loop"
    /\ LET g == Head(stack).g
       IN  stack' = IF found \/ g = <<>> THEN Tail(stack)
                    ELSE Visits(Head(g)) \o <<ILoop(Tail(g))>> \o Tail(stack)
    /\ hist' = Returned(hist, stack', currentScope)
    /\ UNCHANGED <<phase, root, source, finderVars, currentScope, allScopes,
                   tokens, lineOffsets, result>>
    /\ UNCHANGED hostVars

\* a declareSymbol call of the running walker
DeclareStep ==
    /\ phase \in {"tokens", "find"}
    /\ stack # <<>>
    /\ Head(stack).k = "declare"
    /\ LET i == Head(stack)
       IN  allScopes' = IF phase = "find"
                        THEN declareSymbol(currentScope, allScopes, i.name, i.p, i.kind)
                        ELSE declareSymbolRO(currentScope, allScopes, i.name, i.p,
                                             i.kind, i.ro)
    /\ stack' = Tail(stack)
    /\ hist' = Returned(hist, Tail(stack), currentScope)
    /\ UNCHANGED <<phase, root, source, finderVars, currentScope,
                   tokens, lineOffsets, result>>
    /\ UNCHANGED hostVars

\* a pushScope call of the running walker
PushStep ==
    /\ phase \in {"tokens", "find"}
    /\ stack # <<>>
    /\ Head(stack).k = "push"
    /\ LET r == pushScope(currentScope, allScopes)
       IN  /\ allScopes' = r.allScopes
           /\ currentScope' = r.currentScope
    /\ hist' = Returned([hist EXCEPT !.live = Append(@, Len(allScopes) + 1)],
                         Tail(stack), Len(allScopes) + 1)
    /\ stack' = Tail(stack)
    /\ UNCHANGED <<phase, root, source, finderVars, tokens, lineOffsets, result>>
    /\ UNCHANGED hostVars

\* a popScope call of the running walker
PopStep ==
    /\ phase \in {"tokens", "find"}
    /\ stack # <<>>
    /\ Head(stack).k = "pop"
    /\ currentScope' = popScope(currentScope, allScopes)
    /\ hist' = Returned(Popped(hist, currentScope), Tail(stack),
                         popScope(currentScope, allScopes))
    /\ stack' = Tail(stack)
    /\ UNCHANGED <<phase, root, source, finderVars, allScopes,
                   tokens, lineOffsets, result>>
    /\ UNCHANGED hostVars

\* the return of findDeclarationAt
FinishFind ==
    /\ phase = "find"
    /\ stack = <<>>
    /\ result' = [result EXCEPT
                    !.declDone = TRUE,
                    !.found = found /\ declarationNode # NullPath,
                    !.location =
                        IF found /\ declarationNode # NullPath
                        THEN LET decl == At(root, declarationNode)
                             IN  [line |-> decl.ls, col |-> decl.cs, endLine |-> decl.le,
                                  endCol |-> decl.ce, kind |-> declarationKind]
                        ELSE NoLocation]
    /\ phase' = "done"
    /\ UNCHANGED <<root, source, stack, finderVars, currentScope, allScopes,
                   tokens, lineOffsets, hist>>
    /\ UNCHANGED hostVars

(***************************************************************************)
(* The documents the walkers are run on.  A document is                    *)
(*     [earlier declaration]  one sample  [later uses]                     *)
(* where the samples cover every case of visitNode, the loop kinds with    *)
(* braced and unbraced bodies, and null and empty names where the tree can *)
(* hold them.                                                              *)
(***************************************************************************)
MaxUses == 1

\* a declaration written without its keyword (in a group, a destructuring, a foreach)
Bare(v) == [v EXCEPT !.aux = <<"bare">>]
Use(name) == ExprStmt(Id(name))

Bodies ==
    { Block(<<Var(s_z, TRUE, Lit), Use(s_z)>>),
      Var(s_z, TRUE, Lit),
      Use(s_y),
      Block(<<Var(s_x, FALSE, Id(s_x)), Use(s_y)>>) }

LoopSamples ==
    UNION { { <<While(Id(s_x), b)>>,
              <<DoWhile(b, Id(s_x))>>,
              <<For(Var(s_y, TRUE, Lit), Bin("TO_LT", Id(s_y), Lit), Inc(Id(s_y)), b)>>,
              <<Foreach(Bare(Var(s_y, TRUE, Null)), Bare(Var(s_x, TRUE, Null)), Id(s_x), b)>>,
              <<Foreach(Null, Bare(Var(s_y, TRUE, Null)), Id(s_y), b)>>,
              <<Try(b, Id(s_y), Block(<<Use(s_y)>>))>>,
              <<Try(Block(<<Use(s_y)>>), Id(s_y), b)>>,
              <<If(Id(s_x), b, Null)>>,
              <<Function(s_f, <<Param(s_y)>>, Block(<<b, Use(s_f)>>))>> } : b \in Bodies }

DeclSamples ==
    { <<Var(s_x, TRUE, Id(s_x))>>,
      <<Var(s_x, FALSE, Bin("TO_ADD", Id(s_x), Lit))>>,
      <<Var(s_x, TRUE, Null)>>,
      <<Var(s_x, TRUE, Lit), Var(s_x, TRUE, Bin("TO_ADD", Id(s_x), Lit))>>,
      <<Var(EmptyStr, TRUE, Id(s_x))>>,
      <<Const(s_x, Id(s_x))>>,
      <<Const(s_z, Un("TO_NEG", Id(s_x)))>>,
      <<DeclGroup(<<Bare(Var(s_x, TRUE, Id(s_y))), Bare(Var(s_y, TRUE, Id(s_x)))>>)>>,
      <<Destructure(<<Bare(Var(s_x, TRUE, Null)), Bare(Var(s_y, FALSE, Null))>>, Id(s_x))>>,
      <<Destructure(<<Bare(Var(EmptyStr, TRUE, Null))>>, Id(s_z))>>,
      <<Enum(s_E, <<Slot(s_A, NullStr), Slot(s_B, NullStr)>>), Use(s_A),
        ExprStmt(GetField(Id(s_E), s_A))>>,
      <<Enum(NullStr, <<Slot(s_A, NullStr)>>)>>,
      <<Enum(EmptyStr, <<Slot(s_A, NullStr)>>)>>,
      <<Import(NullStr, <<>>)>>,
      <<Import(s_y, <<>>), Use(s_y)>>,
      <<Import(NullStr, <<Slot(s_x, NullStr), Slot(s_star, NullStr), Slot(s_m, s_y)>>),
        Use(s_m)>>,
      <<Import(NullStr, <<Slot(EmptyStr, NullStr)>>)>>,
      <<Function(s_f, <<Param(s_this), Param(s_y)>>,
                 Block(<<ExprStmt(Call(Id(s_f), <<Id(s_this), Id(s_y)>>))>>))>>,
      <<Function(s_y, <<Param(s_this)>>, Block(<<Terminate("TO_RETURN", Id(s_base))>>))>>,
      <<Function(NullStr, <<Param(NullStr), Param(s_x)>>, Block(<<Use(s_x)>>))>>,
      <<Function(EmptyStr, <<Param(EmptyStr)>>, Block(<<Terminate("TO_YIELD", Id(s_x))>>))>>,
      <<Function(s_f, <<>>, Null)>>,
      <<FunctionOnNextLine(s_c, <<Param(s_x)>>, Block(<<Const(s_c, Id(s_x)), Use(s_c)>>))>>,
      <<Var(s_y, FALSE, DeclExpr(Function(s_x, <<Param(s_x)>>,
                                          Block(<<Terminate("TO_RETURN", Id(s_x))>>))))>>,
      <<Class(Id(s_A), Id(s_x),
              <<Id(s_f), Function(s_f, <<Param(s_this)>>, Block(<<Use(s_A)>>)),
                Id(s_y), Id(s_y)>>, <<FALSE, TRUE>>), Use(s_A)>>,
      <<Class(GetField(Id(s_x), s_A), Null,
              <<Id(s_g), Constructor(<<Param(s_this), Param(s_y)>>,
                                     Block(<<ExprStmt(SetField(Id(s_this), s_x, Id(s_y)))>>)),
                Id(s_z), Null>>, <<FALSE, FALSE>>)>>,
      <<Class(Null, Null, <<>>, <<>>)>>,
      <<Try(Block(<<Terminate("TO_THROW", Id(s_x))>>), Id(EmptyStr), Null)>>,
      <<Try(Null, Null, Block(<<Use(s_x)>>))>>,
      <<Foreach(Bare(Var(EmptyStr, TRUE, Null)), Bare(Var(NullStr, TRUE, Null)), Null, Null)>>,
      <<For(Null, Null, Null, Null)>>,
      <<While(Null, Null), DoWhile(Null, Null)>> }

ExprSamples ==
    { <<Use(s_this)>>,
      <<Use(EmptyStr)>>,
      <<ExprStmt(GetField(Id(s_this), s_x))>>,
      <<ExprStmt(GetField(GetField(Id(s_x), s_y), EmptyStr))>>,
      <<ExprStmt(SetField(Id(s_x), s_y, Id(s_z)))>>,
      <<ExprStmt(GetSlot(Id(s_x), Id(s_z)))>>,
      <<ExprStmt(SetSlot(Id(s_x), Id(s_y), Id(s_z)))>>,
      <<ExprStmt(Ternary(Id(s_x), Id(s_y), Id(s_z)))>>,
      <<ExprStmt(ArrayExpr(<<Id(s_x), Lit, Id(s_z)>>))>>,
      <<ExprStmt(Comma(<<Id(s_z), Id(s_x)>>))>>,
      <<ExprStmt(Bin("TO_ASSIGN", Id(s_x), Un("TO_PAREN", Un("TO_NOT", Id(s_z)))))>>,
      <<ExprStmt(Call(Id(s_x), <<>>)), ExprStmt(Call(Null, <<Id(s_x)>>))>>,
      <<Var(s_y, TRUE, Table(<<Id(s_f), Function(s_f, <<Param(s_x)>>, Block(<<Use(s_x)>>)),
                               Id(s_g), Id(s_x), Id(s_z), Null>>))>>,
      <<ExprStmt(CodeBlockExpr(Block(<<Var(s_z, TRUE, Id(s_x)), Use(s_z)>>)))>>,
      <<Switch(Id(s_x), <<Id(s_z), Block(<<Var(s_z, TRUE, Lit)>>), Lit, Use(s_x)>>,
               Use(s_z))>>,
      <<Switch(Null, <<Null, Null>>, Null)>>,
      <<If(Id(s_x), Var(s_z, TRUE, Lit), Block(<<Use(s_z)>>))>>,
      <<Terminate("TO_RETURN", Null)>>,
      <<ExprStmt(Null)>>,
      <<ExprStmt(N("TO_BASE", NullStr, FALSE, <<>>))>> }

Samples == LoopSamples \cup DeclSamples \cup ExprSamples

Earlier == { <<>>, <<Var(s_x, TRUE, Lit)>>, <<Var(s_z, FALSE, Lit)>> }

UsePool == { Use(s_x), Use(s_y), Use(s_z), Use(s_f) }

RECURSIVE SeqsUpTo(_, _)
SeqsUpTo(S, k) ==
    IF k = 0 THEN {<<>>}
    ELSE LET shorter == SeqsUpTo(S, k - 1)
         IN  shorter \cup {Append(q, e) : q \in shorter, e \in S}

Documents ==
    { Document(pre \o mid \o post) :
        pre \in Earlier, mid \in Samples, post \in SeqsUpTo(UsePool, MaxUses) }

\* sq_parsetoast failed: there is no tree
ParseFailure == [root |-> Null, source |-> <<"?">>]

Init ==
    /\ phase = "parsed"
    /\ \E d \in Documents \cup {ParseFailure} :
          /\ root = d.root
          /\ source = d.source
    /\ stack = <<>>
    /\ targetLine = 0
    /\ targetCol = 0
    /\ found = FALSE
    /\ declarationNode = NullPath
    /\ declarationKind = ""
    /\ currentScope = 0
    /\ allScopes = <<>>
    /\ tokens = <<>>
    /\ lineOffsets = <<>>
    /\ result = NoResult
    /\ hist = NoHist
    /\ HostIdle

Next ==
    \/ ExtractParseFailed
    \/ NewSemanticTokenExtractor
    \/ ST_visitNode
    \/ ST_addToken
    \/ ToJson
    \/ FindParseFailed
    \/ NewDeclarationFinder
    \/ DF_visitNode
    \/ DF_loop
    \/ DeclareStep
    \/ PushStep
    \/ PopStep
    \/ FinishFind

Spec == Init /\ [][Next]_vars

(***************************************************************************)
(* The scope chain on its own: any sequence of pushScope, popScope and     *)
(* declareSymbol calls on a freshly constructed walker.                    *)
(***************************************************************************)
MaxScopes == 3
MaxSymbols == 3

ApiNames == {s_x, s_y, EmptyStr, NullStr}

SymbolCount(scopes) ==
    LET RECURSIVE sum(_)
        sum(i) == IF i > Len(scopes) THEN 0 ELSE Len(scopes[i].symbols) + sum(i + 1)
    IN  sum(1)

ScopeInit ==
    /\ phase = "api"
    /\ root = Null
    /\ source = <<>>
    /\ stack = <<>>
    /\ targetLine = 0
    /\ targetCol = 0
    /\ found = FALSE
    /\ declarationNode = NullPath
    /\ declarationKind = ""
    /\ currentScope = pushScope(0, <<>>).currentScope
    /\ allScopes = pushScope(0, <<>>).allScopes
    /\ tokens = <<>>
    /\ lineOffsets = <<>>
    /\ result = NoResult
    /\ hist = [NoHist EXCEPT !.live = <<1>>]
    /\ HostIdle

ApiPushScope ==
    /\ phase = "api"
    /\ Len(allScopes) < MaxScopes
    /\ LET r == pushScope(currentScope, allScopes)
       IN  /\ allScopes' = r.allScopes
           /\ currentScope' = r.currentScope
    /\ hist' = [hist EXCEPT !.live = Append(@, Len(allScopes) + 1)]
    /\ UNCHANGED <<phase, root, source, stack, finderVars, tokens, lineOffsets, result>>
    /\ UNCHANGED hostVars

ApiPopScope ==
    /\ phase = "api"
    /\ currentScope' = popScope(currentScope, allScopes)
    /\ hist' = Popped(hist, currentScope)
    /\ UNCHANGED <<phase, root, source, stack, finderVars, allScopes,
                   tokens, lineOffsets, result>>
    /\ UNCHANGED hostVars

\* the k-th declaration made is of node <<k>>
ApiDeclareSymbol ==
    /\ phase = "api"
    /\ SymbolCount(allScopes) < MaxSymbols
    /\ \E name \in ApiNames :
          allScopes' = declareSymbol(currentScope, allScopes, name,
                                     <<SymbolCount(allScopes) + 1>>, "variable")
    /\ UNCHANGED <<phase, root, source, stack, finderVars, currentScope,
                   tokens, lineOffsets, result, hist>>
    /\ UNCHANGED hostVars

ScopeNext == ApiPushScope \/ ApiPopScope \/ ApiDeclareSymbol

SpecScope == ScopeInit /\ [][ScopeNext]_vars

(***************************************************************************)
(* containsPosition on its own: every span and every target position.     *)
(***************************************************************************)
MaxLine == 3
MaxCol == 3

Spans ==
    { [Id(s_x) EXCEPT !.ls = a, !.cs = b, !.le = c, !.ce = d] :
        a \in 1..MaxLine, b \in 0..MaxCol, c \in 1..MaxLine, d \in 0..MaxCol }

PosInit ==
    /\ phase = "position"
    /\ root \in {n \in Spans : n.ls < n.le \/ (n.ls = n.le /\ n.cs <= n.ce)}
    /\ source = <<>>
    /\ stack = <<>>
    /\ targetLine \in 0..(MaxLine + 1)
    /\ targetCol \in 0..(MaxCol + 1)
    /\ found = FALSE
    /\ declarationNode = NullPath
    /\ declarationKind = ""
    /\ currentScope = 0
    /\ allScopes = <<>>
    /\ tokens = <<>>
    /\ lineOffsets = <<>>
    /\ result = NoResult
    /\ hist = NoHist
    /\ HostIdle

\* if (containsPosition(id)) ...
CheckPosition ==
    /\ phase = "position"
    /\ found' = containsPosition(root, targetLine, targetCol)
    /\ phase' = "positionChecked"
    /\ UNCHANGED <<root, source, stack, targetLine, targetCol, declarationNode,
                   declarationKind, currentScope, allScopes, tokens, lineOffsets,
                   result, hist>>
    /\ UNCHANGED hostVars

PosNext == CheckPosition

SpecPos == PosInit /\ [][PosNext]_vars

(***************************************************************************)
(* escapeJson (utils.cpp) and the SymbolExtractor (extract_symbols.cpp).   *)
(* The text written to a stream is a sequence of pieces; a piece is one    *)
(* `out << ...` of the code with its values.                               *)
(***************************************************************************)
escapeJson(s) ==
    IF s = NullStr THEN <<>>
    ELSE LET RECURSIVE esc(_)
             esc(k) ==
                 IF k > Len(s) THEN <<>>
                 ELSE (CASE s[k] = "\"" -> <<"\\", "\"">>
                         [] s[k] = "\\" -> <<"\\", "\\">>
                         [] s[k] = "\n" -> <<"\\", "n">>
                         [] s[k] = "\r" -> <<"\\", "r">>
                         [] s[k] = "\t" -> <<"\\", "t">>
                         [] OTHER -> <<s[k]>>)
                      \o esc(k + 1)
         IN  esc(1)

NoRange == [startLine |-> 0, startCol |-> 0, endLine |-> 0, endCol |-> 0]
\* SQCompilerMessage (external): the fields diagnosticHandler reads
Diag(line, column, width, textId, message, isError) ==
    [line |-> line, column |-> column, columnsWidth |-> width,
     fileName |-> <<"d","o","c","u","m","e","n","t">>, intId |-> 1,
     textId |-> textId, message |-> message, isError |-> isError]
NoDiag == Diag(0, 0, 0, <<>>, <<>>, FALSE)
Piece(t) == [t |-> t, name |-> <<>>, kind |-> "", range |-> NoRange, msg |-> NoDiag]
\* {"name":"...","kind":"...","range":{...}
SymbolPiece(name, kind, startNode, endNode) ==
    [Piece("{") EXCEPT
        !.name = escapeJson(name), !.kind = kind,
        !.range = [startLine |-> startNode.ls, startCol |-> startNode.cs,
                   endLine |-> endNode.le, endCol |-> endNode.ce]]

\* bool firstAtLevel[64]
Levels == 64
\* SymbolExtractor::SymbolExtractor: the extractor writing to an empty stream.
\* ub: the extractor read or wrote outside firstAtLevel, or through a null pointer
NewSymbolExtractor ==
    [out |-> <<>>, firstAtLevel |-> [i \in 1..Levels |-> TRUE], depth |-> 0, ub |-> FALSE]

startSymbolWithRange(st, name, kind, startNode, endNode) ==
    IF st.depth < 0 \/ st.depth >= Levels \/ startNode = Null \/ endNode = Null
    THEN [st EXCEPT !.ub = TRUE]
    ELSE [st EXCEPT
            !.out = @ \o (IF ~st.firstAtLevel[st.depth + 1] THEN <<Piece(",")>> ELSE <<>>)
                      \o <<SymbolPiece(name, kind, startNode, endNode)>>,
            !.firstAtLevel[st.depth + 1] = FALSE]

startSymbol(st, name, kind, node) == startSymbolWithRange(st, name, kind, node, node)

startChildren(st) ==
    [st EXCEPT !.out = @ \o <<Piece("children[")>>,
               !.depth = @ + 1,
               !.firstAtLevel = IF st.depth + 1 < Levels
                                THEN [@ EXCEPT ![st.depth + 2] = TRUE] ELSE @]

endChildren(st) == [st EXCEPT !.out = @ \o <<Piece("]")>>, !.depth = @ - 1]

endSymbol(st) == [st EXCEPT !.out = @ \o <<Piece("}")>>]

\* SymbolExtractor::getClassName
SE_getClassName(cls) ==
    IF cls.kids[1] # Null /\ cls.kids[1].op = "TO_ID" THEN cls.kids[1].name
    ELSE <<"<","a","n","o","n","y","m","o","u","s",">">>

\* a key lookup that knows identifier keys only
getMemberName_IdOnly(key) ==
    IF key # Null /\ key.op = "TO_ID" THEN key.name ELSE NullStr

getMemberName(key) ==
    IF key # Null /\ key.op = "TO_ID" THEN key.name
    ELSE IF key # Null /\ key.op = "TO_LITERAL" /\ key.flag THEN key.name
    ELSE NullStr

\* the j-th member of a table (members from kid 1) or class (from kid 3)
Member(n, from, j) ==
    [key |-> n.kids[from + 2 * (j - 1)],
     value |-> n.kids[from + 2 * (j - 1) + 1],
     isStatic |-> IF j <= Len(n.aux) THEN n.aux[j] ELSE FALSE]
MemberCount(n, from) == (Len(n.kids) - from + 1) \div 2

getInitializerEnd(init, fallback) ==
    IF init = Null THEN fallback
    ELSE IF init.op = "TO_DECL_EXPR" THEN init.kids[1]
    ELSE init

RECURSIVE SE_visitNode(_, _), SE_VisitAll(_, _, _), collectChildren(_, _),
          visitFunctionBody(_, _), emitTableMember(_, _), SE_Members(_, _, _, _, _),
          SE_VisitAll_Reversed(_, _, _)

\* a loop that visits the nodes from the last to the first
SE_VisitAll_Reversed(st, nodes, i) ==
    IF i > Len(nodes) THEN st
    ELSE LET k == Len(nodes) + 1 - i
         IN  IF nodes[k] = Null THEN SE_VisitAll_Reversed(st, nodes, i + 1)
             ELSE SE_VisitAll_Reversed(SE_visitNode(st, nodes[k]), nodes, i + 1)

\* node->visit(this) for each of the nodes that is not null, in order
SE_VisitAll(st, nodes, i) ==
    IF i > Len(nodes) THEN st
    ELSE IF nodes[i] = Null THEN SE_VisitAll(st, nodes, i + 1)
    ELSE SE_VisitAll(SE_visitNode(st, nodes[i]), nodes, i + 1)

\* the text the visit of node writes, collected in a stream of its own
collectChildren(st, node) ==
    IF node = Null THEN [st |-> st, children |-> <<>>]
    ELSE IF st.depth < 0 \/ st.depth >= Levels
    THEN [st |-> [st EXCEPT !.ub = TRUE], children |-> <<>>]
    ELSE LET savedFirst == st.firstAtLevel[st.depth + 1]
             inner == SE_visitNode([st EXCEPT !.out = <<>>,
                                              !.firstAtLevel[st.depth + 1] = TRUE], node)
         IN  [st |-> [inner EXCEPT !.out = st.out,
                                   !.firstAtLevel[st.depth + 1] = savedFirst],
              children |-> inner.out]

visitFunctionBody(st, fn) ==
    IF fn.kids[1] = Null THEN st
    ELSE LET r == collectChildren(st, fn.kids[1])
         IN  IF r.children # <<>>
             THEN [r.st EXCEPT !.out = @ \o <<Piece("children[")>> \o r.children
                                         \o <<Piece("]")>>]
             ELSE r.st

\* a member writer that does not look inside a declaration expression
emitTableMember_NoDeclExpr(st, member) ==
    LET memberName == getMemberName(member.key)
        val == member.value
    IN  IF memberName = NullStr THEN st
        ELSE IF val = Null THEN [st EXCEPT !.ub = TRUE]
        ELSE IF val.op = "TO_FUNCTION" THEN endSymbol(startSymbol(st, memberName, "Method", val))
        ELSE IF val.op = "TO_CONSTRUCTOR"
        THEN endSymbol(startSymbol(st, memberName, "Constructor", val))
        ELSE endSymbol(startSymbol(st, memberName,
                                   IF member.isStatic THEN "Property" ELSE "Field",
                                   member.key))

emitTableMember(st, member) ==
    LET memberName == getMemberName(member.key)
        val == member.value
        memberDecl == IF val.op = "TO_DECL_EXPR" THEN val.kids[1] ELSE Null
        viaDecl(op) == (memberDecl # Null /\ memberDecl.op = op) \/ val.op = op
        fnSymbol(kind) ==
            LET started == startSymbol(st, memberName, kind, val)
            IN  endSymbol(IF memberDecl # Null THEN visitFunctionBody(started, memberDecl)
                          ELSE started)
    IN  IF memberName = NullStr THEN st
        ELSE IF val = Null THEN [st EXCEPT !.ub = TRUE]
        ELSE IF viaDecl("TO_FUNCTION") THEN fnSymbol("Method")
        ELSE IF viaDecl("TO_CONSTRUCTOR") THEN fnSymbol("Constructor")
        ELSE endSymbol(startSymbol(st, memberName,
                                   IF member.isStatic THEN "Property" ELSE "Field",
                                   member.key))

\* the loop over members() of a class or table, from member j on
SE_Members(st, n, from, j, hasMembers) ==
    IF j > MemberCount(n, from) THEN (IF hasMembers THEN endChildren(st) ELSE st)
    ELSE LET member == Member(n, from, j)
         IN  IF getMemberName(member.key) = NullStr
             THEN SE_Members(st, n, from, j + 1, hasMembers)
             ELSE SE_Members(emitTableMember(IF hasMembers THEN st ELSE startChildren(st),
                                             member),
                             n, from, j + 1, TRUE)

emitInitializerChildren(st, init) ==
    IF init = Null THEN st
    ELSE LET decl == IF init.op = "TO_DECL_EXPR" THEN init.kids[1] ELSE Null
         IN  IF decl = Null THEN st
             ELSE IF decl.op = "TO_TABLE" THEN SE_Members(st, decl, 1, 1, FALSE)
             ELSE IF decl.op = "TO_CLASS" THEN SE_Members(st, decl, 3, 1, FALSE)
             ELSE st

\* the EnumMember symbols of the consts from j on
RECURSIVE SE_EnumConsts(_, _, _)
SE_EnumConsts(st, enm, j) ==
    IF j > Len(enm.aux) THEN st
    ELSE SE_EnumConsts(endSymbol(startSymbol(st, enm.aux[j].name, "EnumMember", enm)),
                       enm, j + 1)

SE_visitNode(st, node) ==
    LET op == node.op IN
    CASE op = "TO_BLOCK" -> SE_VisitAll(st, node.kids, 1)
      [] op \in {"TO_FUNCTION", "TO_CONSTRUCTOR"} ->
            IF node.name = NullStr \/ node.name = EmptyStr THEN st
            ELSE endSymbol(visitFunctionBody(
                     startSymbol(st, node.name,
                                 IF op = "TO_CONSTRUCTOR" THEN "Constructor" ELSE "Function",
                                 node),
                     node))
      [] op = "TO_CLASS" ->
            endSymbol(SE_Members(startSymbol(st, SE_getClassName(node), "Class", node),
                                 node, 3, 1, FALSE))
      [] op = "TO_ENUM" ->
            LET started == startSymbol(st, node.name, "Enum", node)
            IN  endSymbol(IF node.aux # <<>>
                          THEN endChildren(SE_EnumConsts(startChildren(started), node, 1))
                          ELSE started)
      [] op = "TO_VAR" ->
            endSymbol(emitInitializerChildren(
                startSymbolWithRange(st, node.name,
                                     IF node.flag THEN "Variable" ELSE "Binding",
                                     node, getInitializerEnd(node.kids[1], node)),
                node.kids[1]))
      [] op = "TO_CONST" ->
            endSymbol(emitInitializerChildren(
                startSymbolWithRange(st, node.name, "Constant",
                                     node, getInitializerEnd(node.kids[1], node)),
                node.kids[1]))
      [] op = "TO_DECL_GROUP" -> SE_VisitAll(st, node.kids, 1)
      [] op = "TO_TABLE" -> st
      [] op = "TO_IF" -> SE_VisitAll(st, <<node.kids[2], node.kids[3]>>, 1)
      [] op = "TO_WHILE" -> SE_VisitAll(st, <<node.kids[2]>>, 1)
      [] op \in {"TO_FOR", "TO_FOREACH"} -> SE_VisitAll(st, <<node.kids[4]>>, 1)
      [] op = "TO_SWITCH" ->
            SE_VisitAll(st, [j \in 1..((Len(node.kids) - 2) \div 2) |-> node.kids[2 * j + 2]]
                            \o <<node.kids[2]>>, 1)
      [] op = "TO_TRY" -> SE_VisitAll(st, <<node.kids[1], node.kids[3]>>, 1)
      [] OTHER -> st

(***************************************************************************)
(* The host's calls of parseAndExtractSymbols (extract_symbols.cpp) and    *)
(* analyzeCode (analyze.cpp).  queries[q] is one caller: the call it is    *)
(* in, the messages the compiler has still to report in that call, the     *)
(* stream `out` of the call and the value the last call returned.  The     *)
(* compiler (external) is given by what it does for an input: the root it  *)
(* returns, null when parsing fails, and the messages it reports.          *)
(***************************************************************************)
RECURSIVE IntText(_)
IntText(n) ==
    LET d == <<"0","1","2","3","4","5","6","7","8","9">>
    IN  IF n < 10 THEN <<d[n + 1]>> ELSE IntText(n \div 10) \o <<d[(n % 10) + 1]>>

\* err << "Line " << line << ":" << column << ": " << desc
compileErrorText(msg) ==
    <<"L","i","n","e"," ">> \o IntText(msg.line) \o <<":">> \o IntText(msg.column)
    \o <<":"," ">> \o msg.desc

CompileMsg(line, column, desc) == [line |-> line, column |-> column, desc |-> desc]

ParseFailed == <<"P","a","r","s","e"," ","f","a","i","l","e","d">>
FailedToCreateVM == <<"F","a","i","l","e","d"," ","t","o"," ","c","r","e","a","t","e"," ","V","M">>

NoReturn == [kind |-> "none", error |-> NullStr, symbols |-> <<>>, messages |-> <<>>,
             ub |-> FALSE]
\* {"error":...,"symbols":[...]}; error NullStr is the JSON null
OutlineValue(error, symbols, ub) ==
    [kind |-> "outline", error |-> error, symbols |-> symbols, messages |-> <<>>, ub |-> ub]
\* {"messages":[...]}
AnalyzeValue(messages) ==
    [kind |-> "analyze", error |-> NullStr, symbols |-> <<>>, messages |-> messages,
     ub |-> FALSE]

\* an input of a call: what the compiler does with the source text
Input(tree, msgs, diags) == [root |-> tree, msgs |-> msgs, diags |-> diags]
NoInput == Input(Null, <<>>, <<>>)

\* a caller that has made no call; docs are the inputs it passes and input the
\* one of the call.  vm: sq_open succeeded in the call;
\* stale: lastError as the call found it
Caller(docs) == [op |-> "idle", pc |-> "idle", input |-> NoInput, pending |-> <<>>,
                 out |-> <<>>, result |-> NoReturn, stale |-> <<>>, n |-> 0,
                 vm |-> TRUE, docs |-> docs]

\* a call that leaves lastError as it finds it
lastError_kept(e) == e

\* lastError.clear()
lastError_clear(e) == <<>>

\* parseAndExtractSymbols from the test of astData to the return
OutlineReturnValue(tree, lastErr) ==
    IF tree = Null
    THEN LET error == IF lastErr = <<>> THEN ParseFailed ELSE lastErr
         IN  OutlineValue(escapeJson(error), <<>>, FALSE)
    ELSE LET extractor == SE_visitNode(NewSymbolExtractor, tree)
         IN  OutlineValue(NullStr, extractor.out, extractor.ub)

\* what diagnosticHandler writes to *diagOutput
DiagPieces(first, msg) ==
    (IF ~first THEN <<Piece(",")>> ELSE <<>>)
    \o <<[Piece("msg") EXCEPT
            !.msg = [msg EXCEPT !.fileName = escapeJson(@), !.textId = escapeJson(@),
                                !.message = escapeJson(@)]]>>

(***************************************************************************)
(* The documents whose outline is taken, and the compiler's messages.      *)
(***************************************************************************)
s_ctor == <<"c","o","n","s","t","r","u","c","t","o","r">>
s_quoted == <<"a","\"","b">>
ReturnOne == Terminate("TO_RETURN", Lit)
Method(name, body) == DeclExpr(Function(name, <<>>, body))

OutlineSamples ==
    <<
      <<Function(s_f, <<Param(s_x)>>,
                 Block(<<Var(s_y, TRUE, Lit), Function(s_g, <<>>, Block(<<>>))>>)),
        Var(s_x, TRUE, Lit), Var(s_y, FALSE, Lit), Const(s_c, Lit)>>,
      <<Class(Id(s_A), Null, <<Id(s_f), Method(s_f, Block(<<ReturnOne>>))>>, <<FALSE>>)>>,
      <<Class(Id(s_A), Null, <<Id(s_f), Function(s_f, <<>>, Block(<<ReturnOne>>))>>,
              <<FALSE>>)>>,
      <<Class(Id(s_A), Id(s_B),
              <<Id(s_x), Lit, StrLit(s_y), Lit, Lit, Lit,
                Id(s_m), Method(s_m, Block(<<Var(s_z, TRUE, Lit)>>)),
                Id(s_ctor), DeclExpr(Constructor(<<Param(s_x)>>, Block(<<Const(s_c, Lit)>>))),
                Id(s_g), Lit>>,
              <<FALSE, TRUE, FALSE, FALSE, FALSE, TRUE>>),
        Var(s_x, TRUE, Lit), Enum(s_E, <<Slot(s_B, NullStr), Slot(s_A, NullStr)>>)>>,
      <<Class(Id(s_B), Null, <<Id(s_ctor), Constructor(<<>>, Block(<<>>)),
                               StrLit(s_quoted), Lit>>, <<FALSE, TRUE>>)>>,
      <<Class(Id(s_A), Null, <<>>, <<>>), Class(Id(s_B), Null, <<Lit, Lit>>, <<FALSE>>)>>,
      <<Var(s_x, TRUE, DeclExpr(Table(<<Id(s_y), Lit, Lit, Lit, StrLit(s_quoted), Lit,
                                        Id(s_f), Method(s_f, Block(<<>>))>>))),
        Var(s_y, FALSE, DeclExpr(Table(<<>>)))>>,
      <<Const(s_c, DeclExpr(Class(Null, Null, <<Id(s_x), Lit, GetField(Id(s_x), s_y), Lit,
                                                Id(s_y), Lit>>,
                                  <<TRUE, FALSE, FALSE>>))),
        Var(s_z, TRUE, DeclExpr(Function(s_g, <<>>, Block(<<Var(s_x, TRUE, Lit)>>))))>>,
      <<Enum(s_E, <<Slot(s_B, NullStr), Slot(s_A, NullStr)>>), Enum(s_A, <<>>)>>,
      <<Function(NullStr, <<>>, Block(<<Var(s_x, TRUE, Lit)>>))>>,
      <<Function(EmptyStr, <<Param(s_x)>>, Block(<<>>)), Var(s_y, TRUE, Lit)>>,
      <<Class(GetField(Id(s_x), s_A), Null, <<Id(s_m), Lit>>, <<FALSE>>)>>,
      <<ExprStmt(DeclExpr(Table(<<Id(s_x), Lit>>))), Table(<<Id(s_y), Lit>>)>>,
      <<ExprStmt(DeclExpr(Function(s_f, <<>>, Block(<<>>)))),
        Terminate("TO_RETURN", DeclExpr(Class(Null, Null, <<Id(s_x), Lit>>, <<FALSE>>)))>>,
      <<If(Id(s_x), Block(<<Var(s_y, TRUE, Lit)>>), Block(<<Function(s_g, <<>>, Block(<<>>))>>)),
        Var(s_z, TRUE, Lit)>>,
      <<If(Id(s_x), Const(s_c, Lit), Null)>>,
      <<While(Id(s_x), Block(<<Var(s_z, TRUE, Lit), Const(s_c, Lit)>>))>>,
      <<DoWhile(Block(<<Var(s_z, TRUE, Lit)>>), Id(s_x))>>,
      <<For(Var(s_y, TRUE, Lit), Bin("TO_LT", Id(s_y), Lit), Inc(Id(s_y)),
            Block(<<Const(s_c, Lit)>>))>>,
      <<For(Null, Null, Null, Null)>>,
      <<Foreach(Null, Bare(Var(s_y, TRUE, Null)), Id(s_x),
                Block(<<Enum(s_E, <<Slot(s_A, NullStr)>>)>>))>>,
      <<Switch(Id(s_x), <<Lit, Block(<<Var(s_z, TRUE, Lit)>>), Lit, Var(s_y, FALSE, Lit)>>,
               Block(<<Function(s_f, <<>>, Block(<<>>))>>))>>,
      <<Try(Block(<<Var(s_x, TRUE, Lit)>>), Id(s_y), Block(<<Var(s_z, FALSE, Lit)>>))>>,
      <<DeclGroup(<<Bare(Var(s_x, TRUE, Lit)), Bare(Var(s_y, TRUE, Null))>>),
        Block(<<Var(s_z, TRUE, Lit)>>)>>,
      <<Function(s_f, <<>>,
                 Block(<<While(Id(s_x), Block(<<Class(Id(s_A), Null,
                             <<Id(s_m), Method(s_m, Block(<<If(Id(s_x), Var(s_y, TRUE, Lit), Null)>>))>>,
                             <<FALSE>>)>>)),
                         Var(s_z, TRUE, Lit)>>))>>,
      <<>>
    >>

msg_a == CompileMsg(1, 3, <<"e","x","p","e","c","t","e","d"," ","=">>)
msg_b == CompileMsg(12, 0, <<"b","a","d"," ","\"","x","\"">>)
\* the diagnostic analyzeCode's handler gets for a compile message
DiagOf(msg) == Diag(msg.line, msg.column, 1, <<"e","r","r">>, msg.desc, TRUE)
DiagsOf(msgs) == [k \in DOMAIN msgs |-> DiagOf(msgs[k])]
CompileRuns == <<<<>>, <<msg_a>>, <<msg_a, msg_b>>, <<msg_b>>, <<msg_b, msg_a>>>>

\* a parse that succeeds reports nothing or a warning; one that fails, any run
Inputs ==
    [i \in DOMAIN OutlineSamples |-> Input(Document(OutlineSamples[i]).root, <<>>, <<>>)]
    \o <<Input(Document(OutlineSamples[1]).root, <<msg_a>>, DiagsOf(<<msg_a>>))>>
    \o [k \in DOMAIN CompileRuns |-> Input(Null, CompileRuns[k], DiagsOf(CompileRuns[k]))]
OutlineInputs == {Inputs[i] : i \in DOMAIN Inputs}

\* calls one caller makes
MaxCalls == 2

WalkerIdle ==
    /\ phase = "host"
    /\ root = Null
    /\ source = <<>>
    /\ stack = <<>>
    /\ targetLine = 0
    /\ targetCol = 0
    /\ found = FALSE
    /\ declarationNode = NullPath
    /\ declarationKind = ""
    /\ currentScope = 0
    /\ allScopes = <<>>
    /\ tokens = <<>>
    /\ lineOffsets = <<>>
    /\ result = NoResult
    /\ hist = NoHist
walkerVars == <<phase, root, source, stack, targetLine, targetCol, found,
                declarationNode, declarationKind, currentScope, allScopes,
                tokens, lineOffsets, result, hist>>

\* parseAndExtractSymbols up to sq_parsetoast
OutlineCall(q) ==
    /\ queries[q].pc = "idle"
    /\ queries[q].n < MaxCalls
    /\ \E input \in queries[q].docs, vm \in BOOLEAN :
          queries' = [queries EXCEPT ![q] =
                         [@ EXCEPT !.op = "outline", !.input = input, !.vm = vm,
                                   !.pc = IF vm THEN "parse" ELSE "idle",
                                   !.pending = IF vm THEN input.msgs ELSE <<>>,
                                   !.out = <<>>,
                                   !.result = IF vm THEN NoReturn
                                              ELSE OutlineValue(FailedToCreateVM, <<>>, FALSE),
                                   !.stale = lastError,
                                   !.n = @ + 1]]
    /\ lastError' = lastError_clear(lastError)
    /\ UNCHANGED <<diagOutput, diagFirst>>
    /\ UNCHANGED walkerVars

\* the compiler reports the next message of the call to compileErrorHandler
compileErrorHandler(q) ==
    /\ queries[q].op = "outline"
    /\ queries[q].pc = "parse"
    /\ queries[q].pending # <<>>
    /\ lastError' = compileErrorText(Head(queries[q].pending))
    /\ queries' = [queries EXCEPT ![q].pending = Tail(@)]
    /\ UNCHANGED <<diagOutput, diagFirst>>
    /\ UNCHANGED walkerVars

\* sq_parsetoast has returned: parseAndExtractSymbols to its return
OutlineReturn(q) ==
    /\ queries[q].op = "outline"
    /\ queries[q].pc = "parse"
    /\ queries[q].pending = <<>>
    /\ queries' = [queries EXCEPT
                      ![q].pc = "idle",
                      ![q].result = OutlineReturnValue(queries[q].input.root, lastError)]
    /\ UNCHANGED <<lastError, diagOutput, diagFirst>>
    /\ UNCHANGED walkerVars

\* analyzeCode up to sq_parsetoast
AnalyzeCall(q) ==
    /\ queries[q].pc = "idle"
    /\ queries[q].n < MaxCalls
    /\ \E input \in queries[q].docs, vm \in BOOLEAN :
          /\ queries' = [queries EXCEPT ![q] =
                            [@ EXCEPT !.op = "analyze", !.input = input, !.vm = vm,
                                      !.pc = IF vm THEN "parse" ELSE "idle",
                                      !.pending = IF vm THEN input.diags ELSE <<>>,
                                      !.out = IF vm THEN <<Piece("messages[")>> ELSE <<>>,
                                      !.result = IF vm THEN NoReturn ELSE AnalyzeValue(<<>>),
                                      !.stale = <<>>,
                                      !.n = @ + 1]]
          /\ diagOutput' = IF vm THEN q ELSE diagOutput
          /\ diagFirst' = IF vm THEN TRUE ELSE diagFirst
    /\ UNCHANGED lastError
    /\ UNCHANGED walkerVars

\* the compiler reports the next diagnostic of the call to diagnosticHandler
diagnosticHandler(q) ==
    /\ queries[q].op = "analyze"
    /\ queries[q].pc = "parse"
    /\ queries[q].pending # <<>>
    /\ IF diagOutput = 0
       THEN /\ queries' = [queries EXCEPT ![q].pending = Tail(@)]
            /\ UNCHANGED diagFirst
       ELSE /\ queries' = [queries EXCEPT
                              ![q].pending = Tail(@),
                              ![diagOutput].out =
                                  @ \o DiagPieces(diagFirst, Head(queries[q].pending))]
            /\ diagFirst' = FALSE
    /\ UNCHANGED <<lastError, diagOutput>>
    /\ UNCHANGED walkerVars

\* sq_parsetoast and sq_analyzeast have returned: analyzeCode to its return
AnalyzeReturn(q) ==
    /\ queries[q].op = "analyze"
    /\ queries[q].pc = "parse"
    /\ queries[q].pending = <<>>
    /\ queries' = [queries EXCEPT
                      ![q].pc = "idle",
                      ![q].out = @ \o <<Piece("]}")>>,
                      ![q].result = AnalyzeValue(queries[q].out \o <<Piece("]}")>>)]
    /\ diagOutput' = 0
    /\ UNCHANGED <<lastError, diagFirst>>
    /\ UNCHANGED walkerVars

OutlineInit ==
    /\ WalkerIdle
    /\ lastError = <<>>
    /\ diagOutput = 0
    /\ diagFirst = TRUE
    /\ queries = <<Caller(OutlineInputs)>>

OutlineNext ==
    \/ \E q \in DOMAIN queries : OutlineCall(q)
    \/ \E q \in DOMAIN queries : compileErrorHandler(q)
    \/ \E q \in DOMAIN queries : OutlineReturn(q)

SpecOutline == OutlineInit /\ [][OutlineNext]_vars

(***************************************************************************)
(* parseAndExtractSymbols on documents that nest deeply.  The traversal of  *)
(* the SymbolExtractor is taken one call of its functions at a time: todo   *)
(* holds what the calls that are running have still to do when the call on  *)
(* top returns (the C++ call stack), extractor the fields of the extractor. *)
(* The part of a document inside a method body is kept as a Rest node, the  *)
(* statement that stands there given by its kind and nesting, until the     *)
(* traversal comes to it.                                                   *)
(***************************************************************************)
\* classes, tables and enums with children around one another in a document
MaxNesting == 65
\* the nesting up to which SE_visitNode is compared with the steps
MaxPureNesting == 6

\* the statement of a kind that nests k symbols with children
Rest(kind, k) == [N("rest", NullStr, FALSE, <<>>) EXCEPT !.aux = <<kind, k>>]

\* the statement a Rest node stands for, its method body a Rest node again: a
\* class with a field or a method, a variable with a table of a field or a
\* method, and, as the innermost statement, an enum with constants
Unfolded(node) ==
    IF node = Null \/ node.op # "rest" THEN node
    ELSE LET kind == node.aux[1]
             k == node.aux[2]
             inner == Method(s_f, Block(<<Rest(kind, k - 1)>>))
         IN  IF kind = "enum" /\ k <= 1
             THEN Enum(s_E, <<Slot(s_A, NullStr), Slot(s_B, NullStr)>>)
             ELSE IF kind = "table"
             THEN Var(s_x, TRUE,
                      DeclExpr(Table(<<Id(s_f), IF k <= 1 THEN Lit ELSE inner>>)))
             ELSE Class(Id(s_A), Null, <<Id(s_f), IF k <= 1 THEN Lit ELSE inner>>,
                        <<FALSE>>)

\* a tree with no Rest node left in it
RECURSIVE Whole(_)
Whole(node) ==
    IF node = Null THEN Null
    ELSE LET n == Unfolded(node)
         IN  [n EXCEPT !.kids = [i \in DOMAIN n.kids |-> Whole(n.kids[i])]]

Todo(t) == [t |-> t, nodes |-> <<>>, members |-> <<>>, hasMembers |-> FALSE,
            savedOut |-> <<>>, savedFirst |-> FALSE]
\* node->visit(this) for each of the nodes
TodoVisit(nodes) == [Todo("visit") EXCEPT !.nodes = nodes]
\* the rest of the loop over members()
TodoMembers(members, hasMembers) ==
    [Todo("members") EXCEPT !.members = members, !.hasMembers = hasMembers]
\* collectChildren after node->visit(this), and visitFunctionBody after it
TodoChildren(savedOut, savedFirst) ==
    [Todo("children") EXCEPT !.savedOut = savedOut, !.savedFirst = savedFirst]
TodoEndSymbol == Todo("endSymbol")

Members(n, from) == [j \in 1..MemberCount(n, from) |-> Member(n, from, j)]

\* visitFunctionBody and collectChildren up to node->visit(this)
SE_EnterBody(st, fn) ==
    IF fn.kids[1] = Null THEN [st |-> st, todo |-> <<>>]
    ELSE IF st.depth < 0 \/ st.depth >= Levels
    THEN [st |-> [st EXCEPT !.ub = TRUE], todo |-> <<>>]
    ELSE [st |-> [st EXCEPT !.out = <<>>, !.firstAtLevel[st.depth + 1] = TRUE],
          todo |-> <<TodoVisit(<<fn.kids[1]>>),
                     TodoChildren(st.out, st.firstAtLevel[st.depth + 1])>>]

\* collectChildren from the return of node->visit(this), and the rest of
\* visitFunctionBody
SE_LeaveBody(st, item) ==
    IF st.depth < 0 \/ st.depth >= Levels THEN [st EXCEPT !.ub = TRUE]
    ELSE [st EXCEPT
            !.out = item.savedOut
                    \o (IF st.out # <<>>
                        THEN <<Piece("children[")>> \o st.out \o <<Piece("]")>>
                        ELSE <<>>),
            !.firstAtLevel[st.depth + 1] = item.savedFirst]

\* one member of the loop over members(): emitTableMember up to the visit of a
\* method's body
SE_EnterMember(st, member, hasMembers) ==
    LET val == member.value
        memberDecl == IF val # Null /\ val.op = "TO_DECL_EXPR" THEN val.kids[1] ELSE Null
        isMethod == memberDecl # Null /\ memberDecl.op \in {"TO_FUNCTION", "TO_CONSTRUCTOR"}
        opened == IF hasMembers THEN st ELSE startChildren(st)
    IN  IF getMemberName(member.key) = NullStr THEN [st |-> st, todo |-> <<>>]
        ELSE IF ~isMethod THEN [st |-> emitTableMember(opened, member), todo |-> <<>>]
        ELSE LET body == SE_EnterBody(
                             startSymbol(opened, getMemberName(member.key),
                                         IF memberDecl.op = "TO_FUNCTION" THEN "Method"
                                         ELSE "Constructor",
                                         val),
                             memberDecl)
             IN  [st |-> body.st, todo |-> body.todo \o <<TodoEndSymbol>>]

\* SymbolExtractor::visitNode up to the first call it makes of a function that
\* visits nodes; a statement that holds no declaration with a body is visited
\* in one step
SE_EnterNode(st, node) ==
    LET op == node.op
        init == node.kids[1]
        decl == IF init # Null /\ init.op = "TO_DECL_EXPR" THEN init.kids[1] ELSE Null
        members == IF decl = Null THEN <<>>
                   ELSE IF decl.op = "TO_TABLE" THEN <<TodoMembers(Members(decl, 1), FALSE)>>
                   ELSE IF decl.op = "TO_CLASS" THEN <<TodoMembers(Members(decl, 3), FALSE)>>
                   ELSE <<>>
    IN  CASE op \in {"TO_BLOCK", "TO_DECL_GROUP"} ->
                [st |-> st, todo |-> <<TodoVisit(node.kids)>>]
          [] op \in {"TO_FUNCTION", "TO_CONSTRUCTOR"} ->
                IF node.name = NullStr \/ node.name = EmptyStr THEN [st |-> st, todo |-> <<>>]
                ELSE LET body == SE_EnterBody(
                                     startSymbol(st, node.name,
                                                 IF op = "TO_CONSTRUCTOR" THEN "Constructor"
                                                 ELSE "Function",
                                                 node),
                                     node)
                     IN  [st |-> body.st, todo |-> body.todo \o <<TodoEndSymbol>>]
          [] op = "TO_CLASS" ->
                [st |-> startSymbol(st, SE_getClassName(node), "Class", node),
                 todo |-> <<TodoMembers(Members(node, 3), FALSE), TodoEndSymbol>>]
          [] op = "TO_VAR" ->
                [st |-> startSymbolWithRange(st, node.name,
                                             IF node.flag THEN "Variable" ELSE "Binding",
                                             node, getInitializerEnd(init, node)),
                 todo |-> members \o <<TodoEndSymbol>>]
          [] op = "TO_CONST" ->
                [st |-> startSymbolWithRange(st, node.name, "Constant",
                                             node, getInitializerEnd(init, node)),
                 todo |-> members \o <<TodoEndSymbol>>]
          [] OTHER -> [st |-> SE_visitNode(st, node), todo |-> <<>>]

\* the extractor and what is left to do after the step on top of todo
SE_StepOf(st, todo) ==
    LET item == Head(todo)
        rest == Tail(todo)
    IN  CASE item.t = "visit" ->
                IF item.nodes = <<>> THEN [st |-> st, todo |-> rest]
                ELSE LET later == <<TodoVisit(Tail(item.nodes))>> \o rest
                     IN  IF Head(item.nodes) = Null THEN [st |-> st, todo |-> later]
                         ELSE LET r == SE_EnterNode(st, Unfolded(Head(item.nodes)))
                              IN  [st |-> r.st, todo |-> r.todo \o later]
          [] item.t = "members" ->
                IF item.members = <<>>
                THEN [st |-> IF item.hasMembers THEN endChildren(st) ELSE st, todo |-> rest]
                ELSE LET member == Head(item.members)
                         named == getMemberName(member.key) # NullStr
                         r == SE_EnterMember(st, member, item.hasMembers)
                     IN  [st |-> r.st,
                          todo |-> r.todo
                                   \o <<TodoMembers(Tail(item.members),
                                                    item.hasMembers \/ named)>>
                                   \o rest]
          [] item.t = "children" -> [st |-> SE_LeaveBody(st, item), todo |-> rest]
          [] item.t = "endSymbol" -> [st |-> endSymbol(st), todo |-> rest]

Nestings == (1..MaxPureNesting) \cup ((MaxNesting - 3)..MaxNesting)
DepthKinds == {"class", "table", "enum"}
\* the nesting of a document
NestingOf(tree) == tree.kids[1].aux[2]

\* documents that nest little and much, and a source that does not parse
DepthInputs ==
    {Input(RootBlock(<<Rest(kind, k)>>), <<>>, <<>>) : kind \in DepthKinds, k \in Nestings}
    \cup {Input(Null, <<msg_a>>, DiagsOf(<<msg_a>>))}

\* a caller of parseAndExtractSymbols with a traversal that has not begun
DepthCaller(docs) ==
    [op |-> "idle", pc |-> "idle", input |-> NoInput, pending |-> <<>>,
     out |-> <<>>, result |-> NoReturn, stale |-> <<>>, n |-> 0,
     vm |-> TRUE, docs |-> docs,
     extractor |-> NewSymbolExtractor, todo |-> <<>>]

\* the one call the caller makes
DepthCall(q) ==
    /\ queries[q].n = 0
    /\ OutlineCall(q)

\* sq_parsetoast has failed: parseAndExtractSymbols to its return
DepthParseFailed(q) ==
    /\ queries[q].input.root = Null
    /\ OutlineReturn(q)

\* sq_parsetoast has returned a tree: SymbolExtractor extractor(out) and
\* astData->root->visit(&extractor)
SE_Begin(q) ==
    /\ queries[q].op = "outline"
    /\ queries[q].pc = "parse"
    /\ queries[q].pending = <<>>
    /\ queries[q].input.root # Null
    /\ queries' = [queries EXCEPT
                      ![q].pc = "extract",
                      ![q].extractor = NewSymbolExtractor,
                      ![q].todo = <<TodoVisit(<<queries[q].input.root>>)>>]
    /\ UNCHANGED <<lastError, diagOutput, diagFirst>>
    /\ UNCHANGED walkerVars

\* the next call or return in the traversal
SE_Step(q) ==
    /\ queries[q].pc = "extract"
    /\ queries[q].todo # <<>>
    /\ LET r == SE_StepOf(queries[q].extractor, queries[q].todo)
       IN  queries' = [queries EXCEPT ![q].extractor = r.st, ![q].todo = r.todo]
    /\ UNCHANGED <<lastError, diagOutput, diagFirst>>
    /\ UNCHANGED walkerVars

\* the visit of the root has returned: parseAndExtractSymbols to its return
SE_End(q) ==
    /\ queries[q].pc = "extract"
    /\ queries[q].todo = <<>>
    /\ queries' = [queries EXCEPT
                      ![q].pc = "idle",
                      ![q].result = OutlineValue(NullStr, queries[q].extractor.out,
                                                 queries[q].extractor.ub)]
    /\ UNCHANGED <<lastError, diagOutput, diagFirst>>
    /\ UNCHANGED walkerVars

DepthInit ==
    /\ WalkerIdle
    /\ lastError = <<>>
    /\ diagOutput = 0
    /\ diagFirst = TRUE
    /\ queries = <<DepthCaller(DepthInputs)>>

DepthNext ==
    \/ \E q \in DOMAIN queries : DepthCall(q)
    \/ \E q \in DOMAIN queries : compileErrorHandler(q)
    \/ \E q \in DOMAIN queries : DepthParseFailed(q)
    \/ \E q \in DOMAIN queries : SE_Begin(q)
    \/ \E q \in DOMAIN queries : SE_Step(q)
    \/ \E q \in DOMAIN queries : SE_End(q)

SpecDepth == DepthInit /\ [][DepthNext]_vars

\* two callers whose calls of parseAndExtractSymbols and analyzeCode interleave:
\* the empty document, a document with a warning, and sources that do not parse
QueryInputs ==
    {Inputs[i] : i \in Len(OutlineSamples)..(Len(OutlineSamples) + 4)}

QueriesInit ==
    /\ WalkerIdle
    /\ lastError = <<>>
    /\ diagOutput = 0
    /\ diagFirst = TRUE
    /\ queries = <<Caller(QueryInputs), Caller(QueryInputs)>>

QueriesNext ==
    \/ \E q \in DOMAIN queries : OutlineCall(q)
    \/ \E q \in DOMAIN queries : compileErrorHandler(q)
    \/ \E q \in DOMAIN queries : OutlineReturn(q)
    \/ \E q \in DOMAIN queries : AnalyzeCall(q)
    \/ \E q \in DOMAIN queries : diagnosticHandler(q)
    \/ \E q \in DOMAIN queries : AnalyzeReturn(q)

SpecQueries == QueriesInit /\ [][QueriesNext]_vars

(***************************************************************************)
(* Properties.                                                             *)
(***************************************************************************)
IsPrefix(a, b) == Len(a) <= Len(b) /\ SubSeq(b, 1, Len(a)) = a
Running == phase \in {"find", "done"} /\ root # Null
Declared(node) ==
    \E s \in 1..Len(allScopes) : \E i \in 1..Len(allScopes[s].symbols) :
        allScopes[s].symbols[i].node = node
\* q lies in the initializer of the variable declaration v
InInitializer(q, v) ==
    v # NullPath /\ At(root, v).op = "TO_VAR" /\ IsPrefix(Kid(v, 1), q)
\* nodes that neither declare nor open a scope
PlainOps == BinaryOps \cup UnaryOps \cup {"TO_ID", "TO_CALL", "TO_TERNARY", "TO_INC",
                                          "TO_GETSLOT", "TO_ARRAYEXPR", "TO_COMMA"}
\* q is an occurrence of the name of the first statement of the document, a variable
\* declaration, in its own initializer, under plain expression nodes only
SelfReferenceInFirst(q) ==
    /\ root.kids[1].op = "TO_VAR"
    /\ IsPrefix(<<1, 1>>, q)
    /\ At(root, q).op = "TO_ID"
    /\ At(root, q).name = root.kids[1].name
    /\ \A m \in 2..Len(q) : At(root, SubSeq(q, 1, m)).op \in PlainOps

\* C1: the initializer of a variable declaration is traversed before the variable is
\* declared: while the declaration is pending the variable is in no scope, no
\* identifier in the initializer resolves to the variable being declared (in the
\* resolver and in the classifier), and a self-reference in the first statement of a
\* document, where nothing was declared before, is not found
C1_InitializerBeforeDeclaration ==
    /\ phase \in {"tokens", "find"} =>
          \A k \in 1..Len(stack) :
              (stack[k].k = "declare" /\ At(root, stack[k].p).op = "TO_VAR")
                  => ~Declared(stack[k].p)
    /\ (Running /\ found) => ~InInitializer(hist.matched, declarationNode)
    /\ \A j \in 1..Len(hist.resolved) :
          ~InInitializer(hist.resolved[j].id, hist.resolved[j].decl)
    /\ (phase = "done" /\ root # Null) =>
          \A q \in IdPaths(root) :
              (SelfReferenceInFirst(q) /\ containsPosition(At(root, q), targetLine, targetCol))
                  => ~result.found
    /\ \A j \in 1..Len(hist.resolved) :
          SelfReferenceInFirst(hist.resolved[j].id) => hist.resolved[j].decl = NullPath

\* the identifier in the initializer of a re-declaration of x resolved to the earlier x
C1_Witness ==
    /\ phase = "done"
    /\ result.found
    /\ \E v \in AllPaths(root) :
          /\ InInitializer(hist.matched, v)
          /\ At(root, v).name = At(root, hist.matched).name
          /\ declarationNode # v
          /\ At(root, declarationNode).op = "TO_VAR"
          /\ At(root, declarationNode).name = At(root, v).name

LoopOps == {"TO_WHILE", "TO_DOWHILE", "TO_FOR", "TO_FOREACH"}
\* the kid that is the body of a loop
LoopBody(n) == CASE n.op = "TO_WHILE" -> 2
                 [] n.op = "TO_DOWHILE" -> 1
                 [] OTHER -> 4

\* C2: (as claimed) an identifier outside a loop never resolves to a declaration
\* made inside the body of the loop
C2_LoopBodyDeclarationsEndWithLoop ==
    (Running /\ found) =>
        \A L \in AllPaths(root) :
            At(root, L).op \in LoopOps =>
                ~(/\ IsPrefix(Kid(L, LoopBody(At(root, L))), declarationNode)
                  /\ ~IsPrefix(L, hist.matched))

\* the index and value variables of the foreach loop at L
LoopVars(L) == {Kid(L, 2), Kid(L, 3)}

\* C3: an identifier resolves to the index or value variable of a foreach loop only
\* when it lies in the body of that loop: not in the container, not after the loop
\* (in the resolver and in the classifier)
C3_ForeachVariablesOnlyInBody ==
    /\ (Running /\ found) =>
          \A L \in AllPaths(root) :
              (At(root, L).op = "TO_FOREACH" /\ declarationNode \in LoopVars(L))
                  => IsPrefix(Kid(L, 4), hist.matched)
    /\ \A j \in 1..Len(hist.resolved) :
          hist.resolved[j].decl # NullPath =>
              LET L == SubSeq(hist.resolved[j].decl, 1, Len(hist.resolved[j].decl) - 1)
              IN  (hist.resolved[j].decl # <<>> /\ At(root, L).op = "TO_FOREACH"
                   /\ hist.resolved[j].decl \in LoopVars(L))
                      => IsPrefix(Kid(L, 4), hist.resolved[j].id)

\* in one run of the classifier the container, named like the value variable,
\* resolved to an outer declaration and an identifier of the body to a loop variable
C3_Witness ==
    \E L \in AllPaths(root) :
        /\ At(root, L).op = "TO_FOREACH"
        /\ \E a, b \in 1..Len(hist.resolved) :
              /\ hist.resolved[a].id = Kid(L, 1)
              /\ At(root, Kid(L, 1)).name = At(root, Kid(L, 3)).name
              /\ hist.resolved[a].decl # NullPath
              /\ ~IsPrefix(L, hist.resolved[a].decl)
              /\ IsPrefix(Kid(L, 4), hist.resolved[b].id)
              /\ hist.resolved[b].decl \in LoopVars(L)

\* C4: once the resolver has recorded a match no node is processed any more and the
\* recorded declaration and kind stay as they are; findDeclarationAt returns them
C4_ShortCircuit ==
    /\ [](hist.after = 0)
    /\ [][found => /\ found'
                   /\ declarationNode' = declarationNode
                   /\ declarationKind' = declarationKind]_vars
    /\ []((phase = "done" /\ root # Null) =>
            /\ result.found = found
            /\ found => /\ result.location.kind = declarationKind
                        /\ result.location.line = At(root, declarationNode).ls
                        /\ result.location.col = At(root, declarationNode).cs
                        /\ containsPosition(At(root, hist.matched), targetLine, targetCol))

\* a node is reached after the match was recorded
C4_Witness ==
    /\ phase = "find"
    /\ found
    /\ stack # <<>>
    /\ Head(stack).k = "visit"

\* C5: (as claimed) on the start line the column has to be in [start column, end column)
C5_ContainsPositionAsClaimed ==
    phase = "positionChecked" =>
        found = (/\ root.ls <= targetLine /\ targetLine <= root.le
                 /\ targetLine = root.ls => (root.cs <= targetCol /\ targetCol < root.ce)
                 /\ targetLine = root.le => targetCol < root.ce)

\* C5 (amended): containsPosition is true exactly when the target line is within
\* [start line, end line], the column is at least the start column when the line is
\* the start line, and less than the end column when the line is the end line
C5_ContainsPosition ==
    phase = "positionChecked" =>
        found = (/\ root.ls <= targetLine /\ targetLine <= root.le
                 /\ targetLine = root.ls => root.cs <= targetCol
                 /\ targetLine = root.le => targetCol < root.ce)

\* a position on the first line of a node of several lines, at or right of the end column
C5_Witness ==
    /\ phase = "positionChecked"
    /\ found
    /\ root.ls < root.le
    /\ targetLine = root.ls
    /\ targetCol >= root.ce

\* C6: (as claimed) an identifier named this or base is never resolved, neither by
\* the resolver nor by the classifier
C6_ThisAndBaseNeverResolved ==
    /\ (Running /\ found) => At(root, hist.matched).name \notin {s_this, s_base}
    /\ \A j \in 1..Len(hist.resolved) :
          At(root, hist.resolved[j].id).name \in {s_this, s_base}
              => hist.resolved[j].decl = NullPath

\* the live frames that hold an entry named name, by their place in hist.live
Holders(name) ==
    {k \in 1..Len(hist.live) :
        \E i \in 1..Len(allScopes[hist.live[k]].symbols) :
            allScopes[hist.live[k]].symbols[i].name = name}
MaxOf(S) == CHOOSE m \in S : \A o \in S : o <= m

\* C7: findSymbol returns the last entry with the name in the innermost frame, of
\* those entered and not yet left, that holds the name, and nullptr when none holds
\* it; it never returns an entry of a frame that was popped
C7_ResolveInnermostLatest ==
    \A name \in ApiNames \ {NullStr} :
        LET ptr == findSymbol(currentScope, allScopes, name)
        IN  /\ IF Holders(name) = {} THEN ptr = NullSym
               ELSE LET f == hist.live[MaxOf(Holders(name))]
                        last == MaxOf({i \in 1..Len(allScopes[f].symbols) :
                                          allScopes[f].symbols[i].name = name})
                    IN  ptr = [s |-> f, i |-> last]
            /\ ptr.s \notin hist.popped

\* a name declared twice in the frame it resolves in and once in a popped frame
C7_Witness ==
    \E name \in ApiNames :
        LET ptr == findSymbol(currentScope, allScopes, name)
        IN  /\ ptr # NullSym
            /\ ptr.i >= 2
            /\ allScopes[ptr.s].symbols[1].name = name
            /\ \E f \in hist.popped : \E i \in 1..Len(allScopes[f].symbols) :
                  allScopes[f].symbols[i].name = name

RECURSIVE RootOf(_, _)
RootOf(scopes, s) == IF s = 0 \/ scopes[s].parent = 0 THEN s ELSE RootOf(scopes, scopes[s].parent)

\* C8: the current scope is never null and its chain of parents ends at the frame the
\* constructor made; popScope on the root frame changes neither the current scope
\* nor any entry
C8_RootNeverPopped ==
    /\ [](/\ currentScope # 0
          /\ RootOf(allScopes, currentScope) = 1
          /\ allScopes[1].parent = 0)
    /\ [][(ApiPopScope /\ currentScope = 1) =>
            (currentScope' = 1 /\ allScopes' = allScopes)]_vars

\* popScope was called on the root frame, after a push and a pop, and the root frame
\* holds its entries
C8_Witness ==
    /\ phase = "api"
    /\ hist.underflow
    /\ hist.popped # {}
    /\ currentScope = 1
    /\ Len(allScopes[1].symbols) > 0

\* C9: (as claimed) no frame ever holds an entry with an empty name
C9_NoEmptyNameDeclared ==
    \A s \in 1..Len(allScopes) : \A i \in 1..Len(allScopes[s].symbols) :
        allScopes[s].symbols[i].name # EmptyStr

\* C10: the token list getSemanticTokens returns is sorted by (line, column) and
\* every token has a positive length and a column that is not negative
C10_TokensSortedAndProper ==
    result.tokensDone =>
        /\ \A j \in 1..(Len(result.tokens) - 1) :
              \/ result.tokens[j].line < result.tokens[j + 1].line
              \/ /\ result.tokens[j].line = result.tokens[j + 1].line
                 /\ result.tokens[j].col <= result.tokens[j + 1].col
        /\ \A j \in 1..Len(result.tokens) :
              result.tokens[j].length > 0 /\ result.tokens[j].col >= 0

\* the tokens were added in another order than the one returned
C10_Witness ==
    /\ result.tokensDone
    /\ Len(result.tokens) >= 2
    /\ hist.emitted # result.tokens

HasBit(mods, bit) == (mods \div bit) % 2 = 1
\* a declaration whose symbol is readonly: a binding, a constant, an import
ReadonlyDecl(d) == d.op \in {"TO_CONST", "TO_IMPORT"} \/ (d.op = "TO_VAR" /\ ~d.flag)
\* what the identifier at p resolved to in the classifier
ResolvedDecl(p) ==
    LET r == CHOOSE j \in 1..Len(hist.resolved) : hist.resolved[j].id = p
    IN  hist.resolved[r].decl

\* C11: (as claimed) every token of an import, a binding or a constant, at the
\* declaration and at every reference that resolves to it, has the readonly bit, and
\* no token of a mutable variable, parameter, function, class or enum name has it
C11_ReadonlyBit ==
    \A j \in 1..Len(hist.calls) :
        LET c == hist.calls[j].i
        IN  hist.calls[j].new # <<>> =>
              /\ c.type = TT_IMPORT => HasBit(c.mods, TM_READONLY)
              /\ c.type \in {TT_PARAMETER, TT_FUNCTION, TT_CLASS, TT_ENUM}
                    => ~HasBit(c.mods, TM_READONLY)
              /\ c.type = TT_VARIABLE =>
                    (HasBit(c.mods, TM_READONLY) <=>
                        IF HasBit(c.mods, TM_DECLARATION)
                        THEN ReadonlyDecl(At(root, c.p))
                        ELSE ReadonlyDecl(At(root, ResolvedDecl(c.p))))

\* the offsets at which the lines of the source start
LineStarts == {0} \cup {k \in 1..Len(source) : source[k] = "\n"}
WordChar(c) == isalnum(c) \/ c = "_"
\* the columns >= start of the line at which name stands as a whole word; the line
\* runs from offset o to offset e, its line break included
WholeWordColumns(line, start, name) ==
    IF line < 1 \/ line > Cardinality(LineStarts) THEN {}
    ELSE LET o == CHOOSE b \in LineStarts :
                     Cardinality({x \in LineStarts : x < b}) = line - 1
             ends == {k \in LineStarts : k > o}
             e == IF ends = {} THEN Len(source)
                  ELSE CHOOSE k \in ends : \A m \in ends : k <= m
             len == Len(name)
         IN  {c \in start..(e - o - len) :
                /\ \A k \in 1..len : source[o + c + k] = name[k]
                /\ c > start => ~WordChar(source[o + c])
                /\ o + c + len < e => ~WordChar(source[o + c + len + 1])}

\* C12: addTokenForNamedDecl puts the token at the leftmost column, at or after the
\* start column of the node on its start line, where the name stands as a whole
\* word; when there is none it adds no token, the name is declared all the same and
\* the statements after the declaration are traversed
C12_NameSearch ==
    /\ phase \in {"tokens", "idle"} => \A j \in 1..Len(hist.calls) :
          LET c == hist.calls[j].i
              n == At(root, c.p)
              cols == WholeWordColumns(n.ls, n.cs, c.name)
          IN  c.k = "tokenNamed" =>
                IF cols = {} THEN hist.calls[j].new = <<>>
                ELSE hist.calls[j].new =
                        <<[line |-> n.ls, col |-> CHOOSE m \in cols : \A o \in cols : m <= o,
                           length |-> Len(c.name), type |-> c.type, modifiers |-> c.mods]>>
    /\ (result.tokensDone /\ phase = "idle" /\ root # Null) =>
          /\ \A j \in 1..Len(hist.calls) :
                LET c == hist.calls[j].i
                IN  c.k = "tokenNamed" =>
                      \E s \in 1..Len(allScopes) : \E i \in 1..Len(allScopes[s].symbols) :
                          /\ allScopes[s].symbols[i].name = c.name
                          /\ IsPrefix(c.p, allScopes[s].symbols[i].node)
          /\ \A k \in 1..Len(root.kids) :
                (root.kids[k].op = "TO_EXPR_STMT" /\ root.kids[k].kids[1] # Null
                 /\ root.kids[k].kids[1].op = "TO_ID")
                    => \E j \in 1..Len(hist.resolved) : hist.resolved[j].id = <<k, 1>>

\* one name was not on the start line of its declaration, and another was found
\* after an occurrence inside a longer word was passed over
C12_Witness ==
    /\ result.tokensDone
    /\ phase = "idle"
    /\ \E j \in 1..Len(hist.calls) :
          /\ hist.calls[j].i.k = "tokenNamed"
          /\ hist.calls[j].new = <<>>
    /\ \E j \in 1..Len(hist.calls) :
          LET c == hist.calls[j].i
              n == At(root, c.p)
          IN  /\ c.k = "tokenNamed"
              /\ hist.calls[j].new # <<>>
              /\ \E b \in n.cs..(hist.calls[j].new[1].col - 1) :
                    source[lineOffsets[n.ls] + b + 1] = c.name[1]

(***************************************************************************)
(* The outline as the host reads it: the symbols of the returned text,     *)
(* each with its children.                                                 *)
(***************************************************************************)
RECURSIVE ParseSymbolList(_, _)
ParseSymbolList(out, i) ==
    IF i > Len(out) \/ out[i].t \notin {",", "{"} THEN [symbols |-> <<>>, next |-> i]
    ELSE IF out[i].t = "," THEN ParseSymbolList(out, i + 1)
    ELSE LET hasKids == i + 1 <= Len(out) /\ out[i + 1].t = "children["
             kids == IF hasKids THEN ParseSymbolList(out, i + 2)
                     ELSE [symbols |-> <<>>, next |-> i + 1]
             \* past the "]" of the children and the "}" of the symbol
             rest == ParseSymbolList(out, IF hasKids THEN kids.next + 2 ELSE i + 2)
         IN  [symbols |-> <<[name |-> out[i].name, kind |-> out[i].kind,
                             range |-> out[i].range, children |-> kids.symbols]>>
                          \o rest.symbols,
              next |-> rest.next]
ParseSymbols(out) == ParseSymbolList(out, 1).symbols

\* every list of sibling symbols of an outline, and every symbol of it
RECURSIVE SymbolLists(_)
SymbolLists(symbols) ==
    {symbols} \cup UNION {SymbolLists(symbols[i].children) : i \in DOMAIN symbols}
SymbolsIn(symbols) == UNION {{l[i] : i \in DOMAIN l} : l \in SymbolLists(symbols)}

\* the outlines returned by calls whose parse succeeded
Outlines ==
    {[tree |-> queries[q].input.root, symbols |-> ParseSymbols(queries[q].result.symbols)] :
        q \in {c \in DOMAIN queries : /\ queries[c].result.kind = "outline"
                                      /\ queries[c].result.error = NullStr}}

StartsBefore(a, b) ==
    a.startLine < b.startLine \/ (a.startLine = b.startLine /\ a.startCol < b.startCol)
\* the symbols whose range starts where the node starts
SymbolsAt(symbols, kind, n) ==
    {y \in SymbolsIn(symbols) :
        y.kind = kind /\ y.range.startLine = n.ls /\ y.range.startCol = n.cs}
NamesOf(symbols) == [i \in DOMAIN symbols |-> symbols[i].name]

\* C13: at every nesting level of the outline the symbols are in the order of
\* their declarations in the source text (statements of a block, members of a
\* class or table), and the members of an enum are in the order of its constants
C13_OutlineInSourceOrder ==
    \A o \in Outlines :
        /\ \A list \in SymbolLists(o.symbols) : \A i, j \in DOMAIN list :
              (i < j /\ list[i].kind # "EnumMember")
                  => StartsBefore(list[i].range, list[j].range)
        /\ \A p \in AllPaths(o.tree) :
              LET n == At(o.tree, p)
              IN  n.op = "TO_ENUM" =>
                    \A y \in SymbolsAt(o.symbols, "Enum", n) :
                        NamesOf(y.children) = [k \in DOMAIN n.aux |-> escapeJson(n.aux[k].name)]

\* an outline with several symbols at the top, several members in a class and
\* several constants in an enum has been returned
C13_Witness ==
    \E o \in Outlines :
        /\ Len(o.symbols) >= 3
        /\ \E y \in SymbolsIn(o.symbols) : y.kind = "Class" /\ Len(y.children) >= 3
        /\ \E y \in SymbolsIn(o.symbols) : y.kind = "Enum" /\ Len(y.children) >= 2

\* the member has a key that is a plain identifier or a string literal
NamedKey(key) ==
    key # Null /\ (key.op = "TO_ID" \/ (key.op = "TO_LITERAL" /\ key.flag))
\* the names, as the outline prints them, of the members of n with such a key
RECURSIVE NamedMembers(_, _, _)
NamedMembers(n, from, j) ==
    IF j > MemberCount(n, from) THEN <<>>
    ELSE (IF NamedKey(Member(n, from, j).key)
          THEN <<escapeJson(Member(n, from, j).key.name)>> ELSE <<>>)
         \o NamedMembers(n, from, j + 1)
\* the table or class that initializes a variable or constant, Null if none
InitializerDecl(n) ==
    IF n.op \in {"TO_VAR", "TO_CONST"} /\ n.kids[1] # Null /\ n.kids[1].op = "TO_DECL_EXPR"
       /\ n.kids[1].kids[1] # Null /\ n.kids[1].kids[1].op \in {"TO_TABLE", "TO_CLASS"}
    THEN n.kids[1].kids[1] ELSE Null
MembersFrom(decl) == IF decl.op = "TO_CLASS" THEN 3 ELSE 1

\* C14: the children of a Class symbol, and of the symbol of a variable or
\* constant initialized by a table or class, are exactly the members whose key is
\* a plain identifier or a string literal, one child per member, in member order
C14_ChildrenAreNamedMembers ==
    \A o \in Outlines : \A p \in AllPaths(o.tree) :
        LET n == At(o.tree, p)
            decl == InitializerDecl(n)
        IN  /\ n.op = "TO_CLASS" =>
                  \A y \in SymbolsAt(o.symbols, "Class", n) :
                      NamesOf(y.children) = NamedMembers(n, 3, 1)
            /\ decl # Null =>
                  \A y \in SymbolsAt(o.symbols, "Variable", n)
                           \cup SymbolsAt(o.symbols, "Binding", n)
                           \cup SymbolsAt(o.symbols, "Constant", n) :
                      NamesOf(y.children) = NamedMembers(decl, MembersFrom(decl), 1)

\* a class with identifier keys, a string literal key and another key has its
\* symbol in an outline
C14_Witness ==
    \E o \in Outlines : \E p \in AllPaths(o.tree) :
        LET n == At(o.tree, p)
        IN  /\ n.op = "TO_CLASS"
            /\ SymbolsAt(o.symbols, "Class", n) # {}
            /\ \E j, k, l \in 1..MemberCount(n, 3) :
                  /\ Member(n, 3, j).key.op = "TO_ID"
                  /\ Member(n, 3, k).key.op = "TO_LITERAL" /\ Member(n, 3, k).key.flag
                  /\ ~NamedKey(Member(n, 3, l).key)

\* the declaration a member value stands for
ValueDecl(val) == IF val.op = "TO_DECL_EXPR" THEN val.kids[1] ELSE val
MemberKind(member) ==
    IF ValueDecl(member.value).op = "TO_FUNCTION" THEN "Method"
    ELSE IF ValueDecl(member.value).op = "TO_CONSTRUCTOR" THEN "Constructor"
    ELSE IF member.isStatic THEN "Property"
    ELSE "Field"
RECURSIVE NamedMemberKinds(_, _, _)
NamedMemberKinds(n, from, j) ==
    IF j > MemberCount(n, from) THEN <<>>
    ELSE (IF NamedKey(Member(n, from, j).key) THEN <<MemberKind(Member(n, from, j))>>
          ELSE <<>>)
         \o NamedMemberKinds(n, from, j + 1)
KindsOf(symbols) == [i \in DOMAIN symbols |-> symbols[i].kind]

\* the document is `class A { function f() { return 1 } }`
IsClassAWithMethodF(tree) ==
    /\ Len(tree.kids) = 1
    /\ tree.kids[1].op = "TO_CLASS"
    /\ tree.kids[1].kids[1] # Null
    /\ tree.kids[1].kids[1].op = "TO_ID"
    /\ tree.kids[1].kids[1].name = s_A
    /\ MemberCount(tree.kids[1], 3) = 1
    /\ Member(tree.kids[1], 3, 1).key.name = s_f
    /\ ValueDecl(Member(tree.kids[1], 3, 1).value).op = "TO_FUNCTION"

\* C15: a member symbol has kind Method when the member's value is a function,
\* Constructor when it is a constructor, else Property for a static member and
\* Field for any other; the outline of `class A { function f() {...} }` is one
\* Class symbol A with the one child f of kind Method
C15_MemberKinds ==
    \A o \in Outlines :
        /\ \A p \in AllPaths(o.tree) :
              LET n == At(o.tree, p)
                  decl == InitializerDecl(n)
              IN  /\ n.op = "TO_CLASS" =>
                        \A y \in SymbolsAt(o.symbols, "Class", n) :
                            KindsOf(y.children) = NamedMemberKinds(n, 3, 1)
                  /\ decl # Null =>
                        \A y \in SymbolsAt(o.symbols, "Variable", n)
                                 \cup SymbolsAt(o.symbols, "Binding", n)
                                 \cup SymbolsAt(o.symbols, "Constant", n) :
                            KindsOf(y.children) = NamedMemberKinds(decl, MembersFrom(decl), 1)
        /\ IsClassAWithMethodF(o.tree) =>
              /\ Len(o.symbols) = 1
              /\ o.symbols[1].name = s_A
              /\ o.symbols[1].kind = "Class"
              /\ Len(o.symbols[1].children) = 1
              /\ o.symbols[1].children[1].name = s_f
              /\ o.symbols[1].children[1].kind = "Method"

\* the outline of `class A { function f() {...} }` has been returned
C15_Witness ==
    \E o \in Outlines :
        /\ IsClassAWithMethodF(o.tree)
        /\ o.tree.kids[1].kids[4].op = "TO_DECL_EXPR"
        /\ Len(o.symbols) = 1

\* a class with a method, a constructor, a static and an instance member has its
\* symbol in an outline
C15_AllKindsReached ==
    \E o \in Outlines : \E y \in SymbolsIn(o.symbols) :
        /\ y.kind = "Class"
        /\ {"Method", "Constructor", "Property", "Field"}
              \subseteq {y.children[i].kind : i \in DOMAIN y.children}

\* the names written in the declarations of a tree: of its named nodes, of its
\* identifier and string keys, of its enum constants
NamesIn(tree) ==
    UNION {LET n == At(tree, p)
           IN  (IF n.name \in {NullStr, EmptyStr} THEN {} ELSE {n.name})
               \cup (IF n.op = "TO_ENUM" THEN {n.aux[k].name : k \in DOMAIN n.aux} ELSE {})
           : p \in AllPaths(tree)}
SymbolsStartingAt(symbols, n) ==
    {y \in SymbolsIn(symbols) : y.range.startLine = n.ls /\ y.range.startCol = n.cs}

\* C16: the outline holds named declarations only: no symbol stands for a
\* function without a name, for a class whose key is not a plain identifier or
\* for a table literal, and the name of every symbol is written in the source
C16_OnlyNamedDeclarations ==
    \A o \in Outlines :
        /\ \A p \in AllPaths(o.tree) :
              LET n == At(o.tree, p)
              IN  /\ (n.op \in {"TO_FUNCTION", "TO_CONSTRUCTOR"}
                      /\ n.name \in {NullStr, EmptyStr})
                         => \A y \in SymbolsStartingAt(o.symbols, n) :
                               y.kind \notin {"Function", "Constructor"}
                  /\ (n.op = "TO_CLASS" /\ (n.kids[1] = Null \/ n.kids[1].op # "TO_ID"))
                         => SymbolsAt(o.symbols, "Class", n) = {}
                  /\ n.op = "TO_TABLE"
                         => \A y \in SymbolsStartingAt(o.symbols, n) :
                               y.kind \in {"Method", "Constructor"}
        /\ \A y \in SymbolsIn(o.symbols) :
              \E name \in NamesIn(o.tree) : y.name = escapeJson(name)

ControlFlowOps == {"TO_IF", "TO_WHILE", "TO_DOWHILE", "TO_FOR", "TO_FOREACH", "TO_SWITCH",
                   "TO_TRY"}
\* the body and the branches of a control flow statement
BodiesOf(n) ==
    CASE n.op = "TO_IF" -> {n.kids[2], n.kids[3]}
      [] n.op = "TO_WHILE" -> {n.kids[2]}
      [] n.op = "TO_DOWHILE" -> {n.kids[1]}
      [] n.op \in {"TO_FOR", "TO_FOREACH"} -> {n.kids[4]}
      [] n.op = "TO_SWITCH" ->
            {n.kids[2]} \cup {n.kids[2 * j + 2] : j \in 1..((Len(n.kids) - 2) \div 2)}
      [] n.op = "TO_TRY" -> {n.kids[1], n.kids[3]}
      [] OTHER -> {}
IsNamedDeclaration(n) ==
    \/ n.op \in {"TO_VAR", "TO_CONST", "TO_ENUM"}
    \/ n.op \in {"TO_FUNCTION", "TO_CONSTRUCTOR"} /\ n.name \notin {NullStr, EmptyStr}
    \/ n.op = "TO_CLASS" /\ n.kids[1] # Null /\ n.kids[1].op = "TO_ID"
\* the named declarations inside a statement that belong to the statement's level
RECURSIVE DeclsThrough(_)
DeclsThrough(n) ==
    IF n = Null THEN {}
    ELSE IF IsNamedDeclaration(n) THEN {n}
    ELSE IF n.op \in {"TO_BLOCK", "TO_DECL_GROUP"}
    THEN UNION {DeclsThrough(n.kids[k]) : k \in DOMAIN n.kids}
    ELSE UNION {DeclsThrough(b) : b \in BodiesOf(n)}
TopLevelAt(symbols, n) ==
    {i \in DOMAIN symbols :
        symbols[i].range.startLine = n.ls /\ symbols[i].range.startCol = n.cs}

\* C17: a control flow statement of the document (if, while, do-while, for,
\* foreach, switch, try/catch) has no symbol of its own, and every named
\* declaration in its body or branches has its symbol at the level of the statement
C17_ControlFlowTransparent ==
    \A o \in Outlines : \A k \in DOMAIN o.tree.kids :
        LET n == o.tree.kids[k]
        IN  n.op \in ControlFlowOps =>
              /\ SymbolsStartingAt(o.symbols, n) = {}
              /\ \A d \in DeclsThrough(n) : TopLevelAt(o.symbols, d) # {}

\* the calls of parseAndExtractSymbols that got a VM and have returned
ReturnedOutlineCalls ==
    {q \in DOMAIN queries : /\ queries[q].op = "outline"
                            /\ queries[q].pc = "idle"
                            /\ queries[q].vm
                            /\ queries[q].result.kind = "outline"}
\* the text of the last message the compiler reported in a call with this input
LastMessage(input) ==
    IF input.msgs = <<>> THEN ParseFailed
    ELSE compileErrorText(input.msgs[Len(input.msgs)])

\* C18: a call whose parse fails returns a non-null error and no symbols, the
\* error being the last compile error message of this call, or "Parse failed"
\* when this call reported none, whatever earlier calls reported; a call whose
\* parse succeeds returns the error null
C18_ParseError ==
    \A q \in ReturnedOutlineCalls :
        LET c == queries[q]
        IN  IF c.input.root = Null
            THEN /\ c.result.error # NullStr
                 /\ c.result.symbols = <<>>
                 /\ c.result.error = escapeJson(LastMessage(c.input))
            ELSE c.result.error = NullStr

\* a call failed without a message after an earlier call had reported one
C18_Witness ==
    \E q \in ReturnedOutlineCalls :
        /\ queries[q].input.root = Null
        /\ queries[q].input.msgs = <<>>
        /\ queries[q].stale # <<>>
        /\ queries[q].result.error = ParseFailed

\* the text analyzeCode writes for the diagnostics from the k-th on
RECURSIVE AllDiagPieces(_, _)
AllDiagPieces(diags, k) ==
    IF k > Len(diags) THEN <<>>
    ELSE DiagPieces(k = 1, diags[k]) \o AllDiagPieces(diags, k + 1)
\* what a call returns when no other call runs between its start and its return
Alone(op, input) ==
    IF op = "outline"
    THEN OutlineReturnValue(input.root,
                            IF input.msgs = <<>> THEN <<>>
                            ELSE compileErrorText(input.msgs[Len(input.msgs)]))
    ELSE AnalyzeValue(<<Piece("messages[")>> \o AllDiagPieces(input.diags, 1)
                      \o <<Piece("]}")>>)

\* C19: whatever the interleaving of two queries, each returns the result it
\* returns when run alone
C19_QueriesIndependent ==
    \A q \in DOMAIN queries :
        (queries[q].pc = "idle" /\ queries[q].vm /\ queries[q].result.kind # "none")
            => queries[q].result = Alone(queries[q].op, queries[q].input)

FunctionOps == {"TO_FUNCTION", "TO_CONSTRUCTOR"}
FunctionPaths(tree) == {F \in AllPaths(tree) : At(tree, F).op \in FunctionOps}
IsParamOf(node, F) ==
    /\ Len(node) = Len(F) + 1
    /\ IsPrefix(F, node)
    /\ node[Len(node)] >= 2
\* the declaration lies in the function: a parameter or a declaration of the body
InsideFunction(decl, F) == decl # NullPath /\ decl # F /\ IsPrefix(F, decl)
\* the identifier lies in a statement that follows the function in its block
InLaterSibling(q, F) ==
    /\ F # <<>>
    /\ LET B == SubSeq(F, 1, Len(F) - 1)
       IN  /\ At(root, B).op = "TO_BLOCK"
           /\ Len(q) > Len(B)
           /\ IsPrefix(B, q)
           /\ q[Len(B) + 1] > F[Len(F)]
\* nothing but the function declares its name: no other node is named like it but
\* identifiers in expressions
OnlyDeclarationOfItsName(F) ==
    \A p \in AllPaths(root) :
        LET n == At(root, p)
        IN  /\ (p # F /\ n.name = At(root, F).name) =>
                  /\ n.op = "TO_ID"
                  /\ p # <<>>
                  /\ At(root, SubSeq(p, 1, Len(p) - 1)).op \notin {"TO_CLASS", "TO_TRY"}
            /\ n.op \in {"TO_ENUM", "TO_IMPORT"} =>
                  \A k \in DOMAIN n.aux :
                      /\ n.aux[k].name # At(root, F).name
                      /\ n.aux[k].alias # At(root, F).name
\* the identifier q is a use of the name of the function F at a place where the
\* name is in scope: in the body of F or in a later statement of its block
UsesFunction(q, F) ==
    /\ At(root, q).op = "TO_ID"
    /\ NonEmpty(At(root, F).name)
    /\ At(root, q).name = At(root, F).name
    /\ IsPrefix(Kid(F, 1), q) \/ InLaterSibling(q, F)
    /\ OnlyDeclarationOfItsName(F)
\* what resolving q to decl must satisfy
FunctionResolution(q, decl) ==
    \A F \in FunctionPaths(root) :
        /\ UsesFunction(q, F) => decl = F
        /\ InsideFunction(decl, F) => IsPrefix(F, q)

\* C20: the name of a function is declared in the scope current on entry, the
\* parameters in a new scope below it, in order and before anything else; an
\* identifier with the function's name in the body or in a later statement of
\* the block resolves to the function, and no identifier outside the function
\* resolves to a parameter or to a declaration of the body (resolver and
\* classifier)
C20_FunctionScope ==
    /\ (root # Null /\ phase \in {"tokens", "idle", "find", "done"}) =>
          \A t \in DOMAIN allScopes : \A i \in DOMAIN allScopes[t].symbols :
              LET sym == allScopes[t].symbols[i]
                  F == SubSeq(sym.node, 1, Len(sym.node) - 1)
              IN      (sym.kind = "parameter" /\ sym.node # <<>>
                       /\ At(root, F).op \in FunctionOps /\ IsParamOf(sym.node, F)) =>
                          /\ allScopes[t].parent # 0
                          /\ NonEmpty(At(root, F).name) =>
                                \E k \in DOMAIN allScopes[allScopes[t].parent].symbols :
                                    allScopes[allScopes[t].parent].symbols[k].node = F
                          /\ \A h \in 1..(i - 1) :
                                LET before == allScopes[t].symbols[h]
                                IN  /\ before.kind = "parameter"
                                    /\ IsParamOf(before.node, F)
                                    /\ before.node[Len(before.node)] < sym.node[Len(sym.node)]
    /\ phase \in {"tokens", "idle"} =>
          \A j \in 1..Len(hist.resolved) :
              FunctionResolution(hist.resolved[j].id, hist.resolved[j].decl)
    /\ (Running /\ found) => FunctionResolution(hist.matched, declarationNode)
    /\ (phase = "done" /\ root # Null) =>
          \A q \in IdPaths(root) : \A F \in FunctionPaths(root) :
              (UsesFunction(q, F) /\ containsPosition(At(root, q), targetLine, targetCol))
                  => result.found

\* the resolver, asked at a use of f after the function f, answered with f, after
\* the classifier had resolved a use of f in the body of f to f and an
\* identifier of the body to a parameter
C20_Witness ==
    /\ phase = "done"
    /\ result.found
    /\ \E F \in FunctionPaths(root) :
          /\ UsesFunction(hist.matched, F)
          /\ InLaterSibling(hist.matched, F)
          /\ declarationNode = F
          /\ \E a, b \in 1..Len(hist.resolved) :
                /\ UsesFunction(hist.resolved[a].id, F)
                /\ IsPrefix(Kid(F, 1), hist.resolved[a].id)
                /\ hist.resolved[a].decl = F
                /\ IsPrefix(Kid(F, 1), hist.resolved[b].id)
                /\ IsParamOf(hist.resolved[b].decl, F)

\* the classifier found no declaration for an identifier that stands after a
\* function and is named like a parameter of it
C20_ParameterOutOfScope ==
    \E F \in FunctionPaths(root) : \E b \in 1..Len(hist.resolved) :
        /\ InLaterSibling(hist.resolved[b].id, F)
        /\ hist.resolved[b].decl = NullPath
        /\ \E j \in 2..Len(At(root, F).kids) :
              At(root, Kid(F, j)).name = At(root, hist.resolved[b].id).name

(***************************************************************************)
(* The visitNode calls of the running walker.                              *)
(***************************************************************************)
Walking == root # Null /\ phase \in {"tokens", "idle", "find", "done"}
Visited(p) == \E j \in DOMAIN hist.nodes : hist.nodes[j].p = p
Visit(p) == hist.nodes[CHOOSE j \in DOMAIN hist.nodes : hist.nodes[j].p = p]
\* the call for the node at p has returned
Left(p) == Visited(p) /\ Visit(p).exit # 0
\* the scope entries made for the node: frame and place
EntriesOf(node) ==
    {e \in UNION {{[s |-> s, i |-> i] : i \in DOMAIN allScopes[s].symbols} :
                     s \in DOMAIN allScopes} : Deref(allScopes, e).node = node}
PathsOf(ops) == {p \in AllPaths(root) : At(root, p).op \in ops}

\* C21: a class is declared, under the name of its key, in the scope that is
\* current on entry when the key is a plain identifier, and not at all
\* otherwise; the base and every member value are visited with the scope that
\* was current on entry, and that scope is current when the class is left
\* (resolver and classifier)
C21_ClassOpensNoScope ==
    Walking =>
        \A C \in PathsOf({"TO_CLASS"}) :
            Visited(C) =>
                /\ \A i \in 2..Len(At(root, C).kids) :
                      Visited(Kid(C, i)) => Visit(Kid(C, i)).cur = Visit(C).cur
                /\ ~Visited(Kid(C, 1))
                /\ Left(C) => Visit(C).exit = Visit(C).cur
                /\ IF At(root, C).kids[1] # Null /\ At(root, C).kids[1].op = "TO_ID"
                   THEN /\ Cardinality(EntriesOf(C)) <= 1
                        /\ Left(C) => Cardinality(EntriesOf(C)) = 1
                        /\ \A e \in EntriesOf(C) :
                              /\ e.s = Visit(C).cur
                              /\ Deref(allScopes, e).name = At(root, C).kids[1].name
                              /\ Deref(allScopes, e).kind = "class"
                   ELSE EntriesOf(C) = {}

\* the resolver answered a use of A after `class A extends x { f = function ... }`
\* with the class, having visited the base and the body of a member function
C21_Witness ==
    /\ phase = "done"
    /\ result.found
    /\ At(root, declarationNode).op = "TO_CLASS"
    /\ ~IsPrefix(declarationNode, hist.matched)
    /\ Left(Kid(declarationNode, 2))
    /\ \E i \in 4..Len(At(root, declarationNode).kids) :
          /\ Left(Kid(declarationNode, i))
          /\ At(root, Kid(declarationNode, i)).op = "TO_FUNCTION"
          /\ Left(Kid(Kid(declarationNode, i), 1))
          /\ Visit(Kid(Kid(declarationNode, i), 1)).cur # Visit(declarationNode).cur

\* the names of the members of the enum
MemberNames(enm) == {enm.aux[j].name : j \in DOMAIN enm.aux}
\* the identifier q, resolved to decl, is not a member name taken for the enum
NotAMemberOfEnum(q, decl) ==
    (decl # NullPath /\ At(root, decl).op = "TO_ENUM")
        => At(root, q).name = At(root, decl).name
\* the outline of the document, as SymbolExtractor writes it
OutlineOf(tree) == ParseSymbols(SE_visitNode(NewSymbolExtractor, tree).out)

\* C22: a (named) enum makes exactly one scope entry, under its own name; no
\* entry is made for a member, so an identifier that resolves to an enum bears
\* the enum's name, never only a member's, and an identifier that bears a
\* member's name and no declared name does not resolve (resolver and
\* classifier); the outline of the document has, under the Enum symbol, one
\* EnumMember child per member, in order
C22_EnumDeclaresItsNameOnly ==
    /\ Walking =>
          /\ \A E \in PathsOf({"TO_ENUM"}) :
                /\ Cardinality(EntriesOf(E)) <= 1
                /\ (Left(E) /\ NonEmpty(At(root, E).name)) => Cardinality(EntriesOf(E)) = 1
                /\ \A e \in EntriesOf(E) :
                      /\ Deref(allScopes, e).name = At(root, E).name
                      /\ Deref(allScopes, e).kind = "enum"
                      /\ Visited(E) /\ e.s = Visit(E).cur
          /\ \A s \in DOMAIN allScopes : \A i \in DOMAIN allScopes[s].symbols :
                At(root, allScopes[s].symbols[i].node).op \in {"TO_ENUM"}
                    => allScopes[s].symbols[i].name = At(root, allScopes[s].symbols[i].node).name
    /\ phase \in {"tokens", "idle"} =>
          \A j \in 1..Len(hist.resolved) :
              NotAMemberOfEnum(hist.resolved[j].id, hist.resolved[j].decl)
    /\ (Running /\ found) => NotAMemberOfEnum(hist.matched, declarationNode)
    /\ (phase = "parsed" /\ root # Null) =>
          \A E \in PathsOf({"TO_ENUM"}) :
              NonEmpty(At(root, E).name) =>
                  \E y \in SymbolsAt(OutlineOf(root), "Enum", At(root, E)) :
                      /\ SymbolsAt(OutlineOf(root), "Enum", At(root, E)) = {y}
                      /\ y.name = At(root, E).name
                      /\ NamesOf(y.children) = [j \in DOMAIN At(root, E).aux |->
                                                    At(root, E).aux[j].name]
                      /\ \A j \in DOMAIN y.children :
                            /\ y.children[j].kind = "EnumMember"
                            /\ y.children[j].children = <<>>

\* after `enum E { A, B }` the classifier resolved E in E.A to the enum and
\* found nothing for the bare A, and the resolver, asked at the bare A, found
\* nothing either
C22_Witness ==
    /\ phase = "done"
    /\ ~result.found
    /\ \E E \in PathsOf({"TO_ENUM"}) : \E a, b \in 1..Len(hist.resolved) :
          /\ At(root, hist.resolved[a].id).name \in MemberNames(At(root, E))
          /\ InLaterSibling(hist.resolved[a].id, E)
          /\ hist.resolved[a].decl = NullPath
          /\ containsPosition(At(root, hist.resolved[a].id), targetLine, targetCol)
          /\ Cardinality(EntriesOf(E)) = 1
          /\ hist.resolved[b].decl = E
          /\ Len(OutlineOf(root)) = 1
          /\ Len(OutlineOf(root)[1].children) = 2

\* the place of the call for the node at p among the calls made
VisitIndex(p) == CHOOSE j \in DOMAIN hist.nodes : hist.nodes[j].p = p
\* the declaration lies in the initializer of the for loop F
InForInitializer(decl, F) == decl # NullPath /\ IsPrefix(Kid(F, 1), decl)
\* q is a use of the variable the initializer of F declares, in the condition,
\* the step expression or the body, and nothing else in F declares that name
UsesForVariable(q, F) ==
    /\ At(root, Kid(F, 1)) # Null
    /\ At(root, Kid(F, 1)).op = "TO_VAR"
    /\ NonEmpty(At(root, Kid(F, 1)).name)
    /\ At(root, q).op = "TO_ID"
    /\ At(root, q).name = At(root, Kid(F, 1)).name
    /\ \E i \in 2..4 : IsPrefix(Kid(F, i), q)
    /\ \A d \in AllPaths(root) :
          (IsPrefix(F, d) /\ d # Kid(F, 1) /\ At(root, d).name = At(root, q).name)
              => At(root, d).op = "TO_ID"
ForResolution(q, decl) ==
    \A F \in PathsOf({"TO_FOR"}) :
        /\ UsesForVariable(q, F) => decl = Kid(F, 1)
        /\ InForInitializer(decl, F) => IsPrefix(F, q)

\* C23: a for loop pushes one scope on entry and pops it at the end; the
\* initializer, the condition, the step expression and the body are visited in
\* that order, all with that scope current; a variable the initializer declares
\* resolves from the condition, the step expression and the body, and no
\* identifier outside the loop resolves to a declaration of the initializer
\* (resolver and classifier)
C23_ForLoopScope ==
    /\ Walking =>
          \A F \in PathsOf({"TO_FOR"}) :
              Visited(F) =>
                  /\ \A i \in 1..4 :
                        Visited(Kid(F, i)) =>
                            /\ Visit(Kid(F, i)).cur # Visit(F).cur
                            /\ allScopes[Visit(Kid(F, i)).cur].parent = Visit(F).cur
                            /\ \A k \in 1..(i - 1) :
                                  Visited(Kid(F, k)) =>
                                      /\ Visit(Kid(F, k)).cur = Visit(Kid(F, i)).cur
                                      /\ VisitIndex(Kid(F, k)) < VisitIndex(Kid(F, i))
                                      /\ Left(Kid(F, k))
                  /\ Left(F) => Visit(F).exit = Visit(F).cur
    /\ phase \in {"tokens", "idle"} =>
          \A j \in 1..Len(hist.resolved) :
              ForResolution(hist.resolved[j].id, hist.resolved[j].decl)
    /\ (Running /\ found) => ForResolution(hist.matched, declarationNode)
    /\ (phase = "done" /\ root # Null) =>
          \A q \in IdPaths(root) : \A F \in PathsOf({"TO_FOR"}) :
              (UsesForVariable(q, F) /\ containsPosition(At(root, q), targetLine, targetCol))
                  => result.found

\* for (local y = 0; y < 1; y++) { ... y ... } followed by y: the classifier
\* resolved the y of the condition and of the step to the initializer's y and the
\* y after the loop to nothing; the resolver, asked at the y of the body, answered
\* with the initializer's y
C23_Witness ==
    /\ phase = "done"
    /\ result.found
    /\ \E F \in PathsOf({"TO_FOR"}) :
          /\ declarationNode = Kid(F, 1)
          /\ IsPrefix(Kid(F, 4), hist.matched)
          /\ \E a, b, c \in 1..Len(hist.resolved) :
                /\ IsPrefix(Kid(F, 2), hist.resolved[a].id)
                /\ hist.resolved[a].decl = Kid(F, 1)
                /\ IsPrefix(Kid(F, 3), hist.resolved[b].id)
                /\ hist.resolved[b].decl = Kid(F, 1)
                /\ InLaterSibling(hist.resolved[c].id, F)
                /\ At(root, hist.resolved[c].id).name = At(root, Kid(F, 1)).name
                /\ hist.resolved[c].decl = NullPath

\* q is a use of the exception identifier of the try statement at Y in its catch
\* body, and nothing in the catch body declares that name
UsesException(q, Y) ==
    /\ At(root, Kid(Y, 2)) # Null
    /\ NonEmpty(At(root, Kid(Y, 2)).name)
    /\ At(root, q).op = "TO_ID"
    /\ At(root, q).name = At(root, Kid(Y, 2)).name
    /\ IsPrefix(Kid(Y, 3), q)
    /\ \A d \in AllPaths(root) :
          (IsPrefix(Kid(Y, 3), d) /\ At(root, d).name = At(root, q).name)
              => At(root, d).op = "TO_ID"
TryResolution(q, decl) ==
    \A Y \in PathsOf({"TO_TRY"}) :
        /\ UsesException(q, Y) => decl = Kid(Y, 2)
        /\ decl = Kid(Y, 2) => IsPrefix(Kid(Y, 3), q)

\* C24: the try body is visited with the scope current on entry; the catch body
\* is visited, after it, with a new scope below that one, whose first entry is
\* the exception identifier when it is named; the statement is left with the
\* scope it was entered with; an identifier resolves to the exception identifier
\* only in the catch body, and there it does (resolver and classifier)
C24_CatchScope ==
    /\ Walking =>
          \A Y \in PathsOf({"TO_TRY"}) :
              Visited(Y) =>
                  /\ Visited(Kid(Y, 1)) => Visit(Kid(Y, 1)).cur = Visit(Y).cur
                  /\ ~Visited(Kid(Y, 2))
                  /\ Visited(Kid(Y, 3)) =>
                        LET fr == Visit(Kid(Y, 3)).cur
                        IN  /\ fr # Visit(Y).cur
                            /\ allScopes[fr].parent = Visit(Y).cur
                            /\ Visited(Kid(Y, 1)) =>
                                  /\ Left(Kid(Y, 1))
                                  /\ VisitIndex(Kid(Y, 1)) < VisitIndex(Kid(Y, 3))
                            /\ (At(root, Y).kids[2] # Null
                                /\ NonEmpty(At(root, Y).kids[2].name)) =>
                                  /\ Len(allScopes[fr].symbols) >= 1
                                  /\ allScopes[fr].symbols[1].node = Kid(Y, 2)
                                  /\ allScopes[fr].symbols[1].name = At(root, Y).kids[2].name
                                  /\ allScopes[fr].symbols[1].kind = "exception"
                  /\ \A e \in EntriesOf(Kid(Y, 2)) :
                        /\ e.i = 1
                        /\ allScopes[e.s].parent = Visit(Y).cur
                  /\ Cardinality(EntriesOf(Kid(Y, 2))) <= 1
                  /\ Left(Y) => Visit(Y).exit = Visit(Y).cur
    /\ phase \in {"tokens", "idle"} =>
          \A j \in 1..Len(hist.resolved) :
              TryResolution(hist.resolved[j].id, hist.resolved[j].decl)
    /\ (Running /\ found) => TryResolution(hist.matched, declarationNode)
    /\ (phase = "done" /\ root # Null) =>
          \A q \in IdPaths(root) : \A Y \in PathsOf({"TO_TRY"}) :
              (UsesException(q, Y) /\ containsPosition(At(root, q), targetLine, targetCol))
                  => result.found

\* try { y } catch (y) y followed by y: the classifier resolved the y of the try
\* body and the y after the statement to nothing; the resolver, asked at the y
\* of the catch body, answered with the exception identifier
C24_Witness ==
    /\ phase = "done"
    /\ result.found
    /\ declarationKind = "exception"
    /\ \E Y \in PathsOf({"TO_TRY"}) :
          /\ declarationNode = Kid(Y, 2)
          /\ IsPrefix(Kid(Y, 3), hist.matched)
          /\ \E a, b \in 1..Len(hist.resolved) :
                /\ IsPrefix(Kid(Y, 1), hist.resolved[a].id)
                /\ At(root, hist.resolved[a].id).name = At(root, Kid(Y, 2)).name
                /\ hist.resolved[a].decl = NullPath
                /\ InLaterSibling(hist.resolved[b].id, Y)
                /\ At(root, hist.resolved[b].id).name = At(root, Kid(Y, 2)).name
                /\ hist.resolved[b].decl = NullPath

\* the names an import statement brings into scope, in the order of the statement
RECURSIVE SlotNames(_, _)
SlotNames(slots, j) ==
    IF j > Len(slots) THEN <<>>
    ELSE (IF slots[j].name = s_star THEN <<>>
          ELSE IF slots[j].alias # NullStr THEN <<slots[j].alias>>
          ELSE <<slots[j].name>>)
         \o SlotNames(slots, j + 1)
ImportedNames(imp) ==
    IF imp.aux = <<>> THEN (IF imp.name # NullStr THEN <<imp.name>> ELSE <<>>)
    ELSE SlotNames(imp.aux, 1)
\* the entries of the frame that were made for the node, in order
EntriesIn(frame, node) ==
    LET RECURSIVE pick(_)
        pick(i) == IF i > Len(allScopes[frame].symbols) THEN <<>>
                   ELSE (IF allScopes[frame].symbols[i].node = node
                         THEN <<allScopes[frame].symbols[i]>> ELSE <<>>) \o pick(i + 1)
    IN  pick(1)

\* C25: once an import statement is left, the scope that was current on entry
\* holds, for it, one entry per imported name, in order: the alias of a
\* whole-module import (none without alias), and for each slot of a selective
\* import, but a wildcard, its alias or else its name; no other frame holds an
\* entry for the statement; the entries have kind import and, in the
\* classifier, are readonly
C25_ImportDeclares ==
    Walking =>
        \A I \in PathsOf({"TO_IMPORT"}) :
            /\ ~Visited(I) => EntriesOf(I) = {}
            /\ Visited(I) =>
                  /\ \A e \in EntriesOf(I) :
                        /\ e.s = Visit(I).cur
                        /\ Deref(allScopes, e).kind = "import"
                        /\ phase \in {"tokens", "idle"} => Deref(allScopes, e).isReadonly
                  /\ IsPrefix(NamesOf(EntriesIn(Visit(I).cur, I)), ImportedNames(At(root, I)))
                  /\ Left(I) =>
                        /\ NamesOf(EntriesIn(Visit(I).cur, I)) = ImportedNames(At(root, I))
                        /\ Visit(I).exit = Visit(I).cur

\* from "m" import x, *, m as y: both walkers declared x and y; the classifier
\* resolved the m that follows to nothing, and the resolver, asked at a later y,
\* answered with the import statement
C25_Witness ==
    /\ phase = "done"
    /\ result.found
    /\ declarationKind = "import"
    /\ At(root, declarationNode).op = "TO_IMPORT"
    /\ Len(At(root, declarationNode).aux) = 3
    /\ Len(EntriesIn(Visit(declarationNode).cur, declarationNode)) = 2
    /\ At(root, hist.matched).name = At(root, declarationNode).aux[3].alias
    /\ \E a \in 1..Len(hist.resolved) :
          /\ At(root, hist.resolved[a].id).name = At(root, declarationNode).aux[3].name
          /\ hist.resolved[a].decl = NullPath

\* the alias of a whole-module import is in scope, readonly, in the classifier
C25_ModuleAlias ==
    /\ phase = "idle"
    /\ \E I \in PathsOf({"TO_IMPORT"}) :
          /\ At(root, I).aux = <<>>
          /\ Len(EntriesIn(Visit(I).cur, I)) = 1
          /\ EntriesIn(Visit(I).cur, I)[1].isReadonly
          /\ EntriesIn(Visit(I).cur, I)[1].name = At(root, I).name

\* the target position lies in the field name of the field access at G
TargetInField(G) ==
    /\ targetLine = At(root, G).le
    /\ targetCol >= At(root, G).ce - strlen(At(root, G).name)
    /\ targetCol < At(root, G).ce
\* the tokens the classifier added at the place of the field name of G
FieldTokens(G) ==
    {j \in DOMAIN hist.calls :
        /\ hist.calls[j].new # <<>>
        /\ hist.calls[j].new[1].line = At(root, G).le
        /\ hist.calls[j].new[1].col = At(root, G).ce - strlen(At(root, G).name)}
\* the tokens the classifier added for the node at p
NodeTokens(p) ==
    {j \in DOMAIN hist.calls :
        /\ hist.calls[j].new # <<>>
        /\ hist.calls[j].i.k = "tokenNode"
        /\ hist.calls[j].i.p = p}
\* the receiver of G is an identifier that the classifier resolved to an enum
ReceiverIsEnum(G) ==
    /\ At(root, Kid(G, 1)) # Null
    /\ At(root, Kid(G, 1)).op = "TO_ID"
    /\ \E j \in DOMAIN hist.resolved :
          /\ hist.resolved[j].id = Kid(G, 1)
          /\ hist.resolved[j].decl # NullPath
          /\ At(root, hist.resolved[j].decl).op = "TO_ENUM"

\* C26: both walkers visit the receiver of a field access and nothing else of
\* it, and the resolver, asked at a field name, finds nothing, whatever is
\* declared under that name; the classifier adds for the (non-empty) field name
\* of a field access it has traversed exactly one token,
\* an enum-member token when the receiver is an identifier that resolves to an
\* enum and a property token otherwise, and at most one token for the receiver
C26_FieldAccess ==
    /\ (Running /\ found) => At(root, hist.matched).op = "TO_ID"
    /\ (phase = "done" /\ root # Null) =>
          \A G \in FieldPaths(root) : TargetInField(G) => ~result.found
    /\ Walking =>
          \A G \in FieldPaths(root) :
              Visited(G) => \A p \in AllPaths(root) :
                  (Visited(p) /\ IsPrefix(G, p) /\ p # G) => IsPrefix(Kid(G, 1), p)
    /\ (root # Null /\ phase \in {"tokens", "idle"}) =>
          \A G \in FieldPaths(root) :
              /\ Cardinality(FieldTokens(G)) <= 1
              /\ \A j \in FieldTokens(G) :
                    /\ hist.calls[j].new[1].type =
                          IF ReceiverIsEnum(G) THEN TT_ENUM_MEMBER ELSE TT_PROPERTY
                    /\ hist.calls[j].new[1].length = strlen(At(root, G).name)
                    /\ Len(hist.calls[j].new) = 1
              /\ At(root, Kid(G, 1)) # Null => Cardinality(NodeTokens(Kid(G, 1))) <= 1
              /\ Left(G) => Cardinality(FieldTokens(G)) = 1

\* with x declared, the classifier gave the x of this.x a property token and the
\* resolver, asked at that x, found nothing
C26_Witness ==
    /\ phase = "done"
    /\ ~result.found
    /\ \E G \in FieldPaths(root) :
          /\ TargetInField(G)
          /\ \E i \in DOMAIN allScopes[1].symbols :
                allScopes[1].symbols[i].name = At(root, G).name
          /\ \E j \in FieldTokens(G) : hist.calls[j].new[1].type = TT_PROPERTY

\* enum E { A, B } ... E.A: an enum token for E and an enum-member token for A
C26_EnumMemberToken ==
    /\ phase = "idle"
    /\ \E G \in FieldPaths(root) :
          /\ ReceiverIsEnum(G)
          /\ Cardinality(NodeTokens(Kid(G, 1))) = 1
          /\ \E j \in FieldTokens(G) : hist.calls[j].new[1].type = TT_ENUM_MEMBER

\* nodes whose case pushes a scope
ScopeOps == {"TO_FUNCTION", "TO_CONSTRUCTOR", "TO_FOREACH", "TO_FOR", "TO_TRY"}
OpensScope(p) ==
    At(root, p).op \in ScopeOps \/ (At(root, p).op = "TO_BLOCK" /\ ~At(root, p).flag)

\* C27: every visitNode call returns with the scope current that was current when
\* it was entered, in both walkers and also when the resolver recorded its match
\* inside the node; a call that has not returned has the scope it was entered
\* with on the chain of the current scope; when the traversal of the tree has
\* ended the current scope is the root frame
C27_ScopesBalanced ==
    Walking =>
        /\ \A j \in DOMAIN hist.nodes :
              IF hist.nodes[j].exit # 0 THEN hist.nodes[j].exit = hist.nodes[j].cur
              ELSE \E k \in DOMAIN hist.live : hist.live[k] = hist.nodes[j].cur
        /\ (phase \in {"idle", "done"} \/ stack = <<>>) =>
              /\ currentScope = 1
              /\ allScopes[1].parent = 0
              /\ \A j \in DOMAIN hist.nodes : hist.nodes[j].exit # 0
              /\ Cardinality(hist.popped) = Len(allScopes) - 1
              /\ ~hist.underflow

\* the resolver recorded its match inside nested nodes that had pushed scopes,
\* and the traversal ended with the root frame current
C27_Witness ==
    /\ phase = "done"
    /\ found
    /\ currentScope = 1
    /\ \E p, q \in AllPaths(root) :
          /\ p # q
          /\ IsPrefix(p, q)
          /\ IsPrefix(q, hist.matched)
          /\ OpensScope(p) /\ OpensScope(q)
          /\ Left(p) /\ Left(q)
          /\ Visit(q).cur # Visit(p).cur
          /\ Visit(hist.matched).cur \notin {1, Visit(p).cur, Visit(q).cur}

\* a call of parseAndExtractSymbols on a tree, in its traversal or returned
Extracting(q) ==
    /\ queries[q].op = "outline"
    /\ queries[q].vm
    /\ queries[q].input.root # Null
    /\ queries[q].pc \in {"extract", "idle"}

\* C28: (as claimed) no call of parseAndExtractSymbols reads or writes
\* firstAtLevel outside its 64 elements, whatever the nesting of the document,
\* and the extractor's depth is 0 when the traversal of the root has ended
C28_DepthInRange ==
    \A q \in DOMAIN queries :
        Extracting(q) =>
            /\ ~queries[q].extractor.ub
            /\ queries[q].pc = "idle" => queries[q].extractor.depth = 0

\* what holds: the depth is 0 again at the end of every traversal and never
\* negative, and firstAtLevel is accessed outside its elements exactly in
\* the documents that nest Levels or more classes, tables or enums
C28_DepthBalanced ==
    \A q \in DOMAIN queries :
        Extracting(q) =>
            /\ queries[q].extractor.depth \in 0..NestingOf(queries[q].input.root)
            /\ queries[q].pc = "idle" =>
                  /\ queries[q].extractor.depth = 0
                  /\ queries[q].result.ub <=> NestingOf(queries[q].input.root) >= Levels
            /\ NestingOf(queries[q].input.root) < Levels => ~queries[q].extractor.ub

\* a traversal accessed firstAtLevel[64]
C28_OutOfRange ==
    \E q \in DOMAIN queries :
        /\ Extracting(q)
        /\ queries[q].extractor.ub
        /\ queries[q].extractor.depth = Levels

\* taken one call at a time the traversal returns what SE_visitNode returns
C28_StepsAreVisitNode ==
    \A q \in DOMAIN queries :
        (/\ Extracting(q)
         /\ queries[q].pc = "idle"
         /\ NestingOf(queries[q].input.root) <= MaxPureNesting) =>
            queries[q].result = OutlineReturnValue(Whole(queries[q].input.root), lastError)

\* the identifier at q is an expression: it is not the key of a class, the key of
\* a member or the identifier of a catch clause
IsReference(q) ==
    /\ q # <<>>
    /\ LET parent == At(root, SubSeq(q, 1, Len(q) - 1))
           i == q[Len(q)]
       IN  /\ parent.op = "TO_CLASS" => (i = 2 \/ (i >= 4 /\ i % 2 = 0))
           /\ parent.op = "TO_TABLE" => i % 2 = 0
           /\ parent.op = "TO_TRY" => i # 2

\* the identifier references, other than this and base, that hold the target
\* position
TargetReferences ==
    {q \in IdPaths(root) :
        /\ IsReference(q)
        /\ At(root, q).name \notin {s_this, s_base}
        /\ containsPosition(At(root, q), targetLine, targetCol)}

\* the classifier looked the identifier at q up
Classified(q) == \E j \in 1..Len(hist.resolved) : hist.resolved[j].id = q

\* C29: the resolver and the classifier apply the same scoping rules: when the
\* target position is inside an identifier reference other than this and base,
\* the resolver reports a declaration exactly when the classifier added a token
\* for the identifier, and the declaration it reports is the one the
\* classifier's lookup resolved the identifier to
C29_SameScoping ==
    (phase = "done" /\ root # Null) =>
        \A q \in TargetReferences :
            /\ found <=> NodeTokens(q) # {}
            /\ found =>
                  /\ hist.matched = q
                  /\ Classified(q)
                  /\ ResolvedDecl(q) = declarationNode
            /\ (~found /\ Classified(q)) => ResolvedDecl(q) = NullPath

\* the resolver reported, for an identifier inside a scope of its own, the
\* declaration the classifier had resolved it to
C29_Witness ==
    /\ phase = "done"
    /\ found
    /\ hist.matched \in TargetReferences
    /\ Classified(hist.matched)
    /\ ResolvedDecl(hist.matched) = declarationNode
    /\ NodeTokens(hist.matched) # {}
    /\ Visit(hist.matched).cur # 1

\* the resolver reported nothing for an identifier that both had looked up
C29_NotFound ==
    /\ phase = "done"
    /\ ~found
    /\ \E q \in TargetReferences :
          /\ Visited(q)
          /\ Classified(q)
          /\ ResolvedDecl(q) = NullPath
          /\ NodeTokens(q) = {}

\* the class or table of which the node at p is a member value, itself or in a
\* declaration expression; <<0>> when it is none
HolderOf(p) ==
    LET up(k) == SubSeq(p, 1, Len(p) - k)
        member(h, i) ==
            \/ At(root, h).op = "TO_CLASS" /\ i >= 4 /\ i % 2 = 0
            \/ At(root, h).op = "TO_TABLE" /\ i % 2 = 0
    IN  IF Len(p) >= 1 /\ member(up(1), p[Len(p)]) THEN up(1)
        ELSE IF Len(p) >= 2 /\ At(root, up(1)).op = "TO_DECL_EXPR"
                /\ member(up(2), p[Len(p) - 1])
        THEN up(2)
        ELSE NullPath

\* the named functions that are member values
Methods ==
    {F \in FunctionPaths(root) : NonEmpty(At(root, F).name) /\ HolderOf(F) # NullPath}

\* the statement of the innermost block around p that holds the node at p
StatementOf(p) ==
    LET blocks == {k \in 0..(Len(p) - 1) : At(root, SubSeq(p, 1, k)).op = "TO_BLOCK"}
    IN  SubSeq(p, 1, MaxOf(blocks) + 1)

\* no node from the statement of p down to p opens a scope
InScopeOfStatement(p) ==
    \A k \in Len(StatementOf(p))..(Len(p) - 1) : ~OpensScope(SubSeq(p, 1, k))

\* nothing but the function declares its name: the other nodes of that name are
\* identifiers in expressions, keys of members, field names and literals
OnlyMethodOfItsName(F) ==
    \A p \in AllPaths(root) :
        LET n == At(root, p)
        IN  /\ (p # F /\ n.name = At(root, F).name) =>
                  /\ n.op \in {"TO_ID", "TO_GETFIELD", "TO_LITERAL"}
                  /\ n.op = "TO_ID" =>
                        /\ p # <<>>
                        /\ LET parent == At(root, SubSeq(p, 1, Len(p) - 1))
                           IN  /\ parent.op = "TO_CLASS" => p[Len(p)] # 1
                               /\ parent.op = "TO_TRY" => p[Len(p)] # 2
            /\ n.op \in {"TO_ENUM", "TO_IMPORT"} =>
                  \A k \in DOMAIN n.aux :
                      /\ n.aux[k].name # At(root, F).name
                      /\ n.aux[k].alias # At(root, F).name

\* the identifier q is a bare use of the name of the method F in a statement
\* that follows the statement of F's class or table in its block
UsesMethod(q, F) ==
    /\ F \in Methods
    /\ InScopeOfStatement(F)
    /\ OnlyMethodOfItsName(F)
    /\ At(root, q).op = "TO_ID"
    /\ IsReference(q)
    /\ At(root, q).name = At(root, F).name
    /\ InLaterSibling(q, StatementOf(F))

\* C30: a named function that is the value of a member of a class or table is
\* declared in the scope that is current at the class or table: it is visited
\* with that scope, its entry lies in that frame, and an identifier with its
\* name in a later statement of the block resolves to it, with kind function
\* (resolver and classifier)
C30_MethodInEnclosingScope ==
    Walking =>
        /\ \A F \in Methods :
              Visited(F) =>
                  /\ Visited(HolderOf(F))
                  /\ Visit(F).cur = Visit(HolderOf(F)).cur
                  /\ \A e \in EntriesOf(F) :
                        /\ e.s = Visit(HolderOf(F)).cur
                        /\ Deref(allScopes, e).kind = "function"
                  /\ Left(F) => EntriesOf(F) # {}
        /\ \A j \in 1..Len(hist.resolved) : \A F \in Methods :
              UsesMethod(hist.resolved[j].id, F) =>
                  /\ hist.resolved[j].decl = F
                  /\ phase \in {"idle", "find", "done"} =>
                        \A t \in NodeTokens(hist.resolved[j].id) :
                            hist.calls[t].new[1].type = TT_FUNCTION
        /\ (Running /\ found) =>
              \A F \in Methods :
                  UsesMethod(hist.matched, F) =>
                      declarationNode = F /\ declarationKind = "function"
        /\ phase = "done" =>
              \A q \in TargetReferences : \A F \in Methods :
                  (UsesMethod(q, F) /\ Classified(q)) =>
                      /\ result.found
                      /\ result.location.kind = "function"

\* the resolver answered, at an identifier after a class, with a method of the
\* class, which the classifier had marked as a function
C30_Witness ==
    /\ phase = "done"
    /\ result.found
    /\ \E F \in Methods :
          /\ At(root, HolderOf(F)).op = "TO_CLASS"
          /\ UsesMethod(hist.matched, F)
          /\ declarationNode = F
          /\ declarationKind = "function"
          /\ \E t \in NodeTokens(hist.matched) : hist.calls[t].new[1].type = TT_FUNCTION

\* the same for a method of a table in an initializer
C30_TableMethod ==
    /\ phase = "done"
    /\ result.found
    /\ \E F \in Methods :
          /\ At(root, HolderOf(F)).op = "TO_TABLE"
          /\ UsesMethod(hist.matched, F)
          /\ declarationNode = F
          /\ \E t \in NodeTokens(hist.matched) : hist.calls[t].new[1].type = TT_FUNCTION
====
